---- MODULE Spec2Model ----
(***************************************************************************)
(* A model of the trading-signal core of the repository:                   *)
(*   backend/services/backtest_engine.py  (BacktestEngine)                 *)
(*   backend/services/bitunix_api.py      (BitunixTradeManager)            *)
(*   backend/services/telegram_parser.py  (TelegramSignalParser)           *)
(*                                                                         *)
(* Seven specifications share the module:                                  *)
(*   Spec         BacktestEngine.run_backtest, one loop iteration at a     *)
(*                time                                                     *)
(*   SpecSearch   direct calls of BacktestEngine._find_entry_point and     *)
(*                BacktestEngine._find_exit_point on candle data           *)
(*   SpecExec     BitunixTradeManager.execute_signal, one gateway call at  *)
(*                a time                                                   *)
(*   SpecSize     the two _calculate_position_size functions called on the *)
(*                same arguments                                           *)
(*   SpecMetrics  BacktestEngine._calculate_metrics called on a trade list *)
(*                and the equity curve run_backtest builds for it          *)
(*   SpecParse    TelegramSignalParser.parse_signal and                    *)
(*                batch_parse_signals called on texts                      *)
(*   SpecSimulate the loop of run_backtest with lines 125-172 of           *)
(*                _simulate_trade, on candle data that passed line 122     *)
(*                                                                         *)
(* Python floats are modelled by exact numbers: prices are positive        *)
(* integers, amounts are rationals <<numerator, denominator>>.  Rounding   *)
(* is modelled where a result depends on it: np.mean and np.std of the     *)
(* returns are computed on floats of MantissaBits bits.  A text is a list  *)
(* of words.                                                               *)
(***************************************************************************)
EXTENDS Integers, Sequences, FiniteSets, TLC

(***************************************************************************)
(* Bounds of the model.                                                    *)
(***************************************************************************)
\* prices are 1 .. MaxPrice
MaxPrice == 3
\* a candle series of the search specification holds at most MaxCandles candles
MaxCandles == 3
\* a batch of texts holds at most MaxBatch texts
MaxBatch == 3
\* an entry-zone list of the search specification holds at most MaxZones prices
MaxZones == 2
\* a target list of the search specification holds at most MaxTargets prices
MaxTargets == 2
\* run_backtest is given at most MaxSignals signals
MaxSignals == 2
\* and the provider answers each with at most RunCandles candles
RunCandles == 2
\* _calculate_metrics is given at most MaxTrades trades
MaxTrades == 3

\* Python's None where a number is expected: no price and no timestamp is negative
None == -1
\* None where the exit reason (a string) is expected
NoReason == "None"
LONG == "LONG"
SHORT == "SHORT"

Prices == 1 .. MaxPrice

\* the sequences over S of length lo .. hi
SeqsBetween(S, lo, hi) == UNION {[1 .. n -> S] : n \in lo .. hi}

(***************************************************************************)
(* Candles.  A row of the DataFrame built by _get_historical_data: the     *)
(* index (timestamp) and the low, high and close columns; open and volume  *)
(* are read nowhere.  Binance returns klines in ascending time, one per    *)
(* hour, so the k-th row of a series has timestamp k.                      *)
(***************************************************************************)
CandleShapes ==
    {c \in [low : Prices, high : Prices, close : Prices] :
        /\ c.low <= c.high
        /\ c.close \in {c.low, c.high}}

Stamp(shapes) ==
    [k \in 1 .. Len(shapes) |->
        [timestamp |-> k, low |-> shapes[k].low,
         high |-> shapes[k].high, close |-> shapes[k].close]]

SeriesUpTo(n) == {Stamp(s) : s \in SeqsBetween(CandleShapes, 0, n)}

VARIABLES
    \* ---- Spec: run_backtest
    rpc,            \* "off", "loop", "returned", "raised"
    initial_balance,
    settings,
    signals,        \* the list of signal dicts
    idx,            \* how many signals the for loop has taken
    balance,
    trade_history,
    equity_curve,
    signal,         \* the loop variable
    response,       \* what the price-history provider answered for it
    trade_result,
    branch,         \* how the last iteration ended: "continue", "except", "simulated"
    returned_at,    \* the statement that ended its call of _simulate_trade
    before,         \* trade_history, balance and equity_curve when it began
    report,         \* <<>> or <<the returned dict>>
    \* ---- SpecSearch: the arguments and results of the two searches
    spc,            \* "entry_call", "entry_done", "exit_done"
    data,           \* the candle series (DataFrame)
    entry_zones,
    position_type,
    targets,
    stop_loss,
    entry,          \* result of _find_entry_point: [price, time]
    exit,           \* result of _find_exit_point: [price, time, reason]
    \* ---- SpecExec: execute_signal
    epc,            \* the statement execute_signal stands at: "off", a stage, "done"
    signal_data,
    exec_settings,
    position_size,
    step,           \* the loop variable i of the ladder being placed
    calls,          \* the calls the gateway has received, in order
    entry_orders,
    target_orders,
    stop_order,     \* <<>> (None) or <<the order>>
    result,         \* <<>> or <<the returned dict>>
    \* ---- SpecSize: the two _calculate_position_size functions on the same arguments
    zpc,            \* "off", "call"
    size_args,      \* [balance, default_size, risk_percentage, entry_price, stop_loss]
    backtest_size,  \* <<>> or <<what BacktestEngine._calculate_position_size returned>>
    manager_size,   \* <<>> or <<what BitunixTradeManager._calculate_position_size returned>>
    \* ---- SpecMetrics: _calculate_metrics on a trade list and its equity curve
    mpc,            \* "off", "call", "done"
    metric_args,    \* [initial_balance, final_balance, trade_history, equity_curve]
    computed_metrics, \* <<>> or <<the returned dict>>
    \* ---- SpecParse: parse_signal on a text, batch_parse_signals on a list of texts
    ppc,            \* "off", "call", "parsed", "batch"
    texts,          \* the texts passed
    intents,        \* the dicts returned, <<>> before the call
    \* ---- SpecSimulate: the loop of run_backtest on data that passed line 122
    tpc,            \* "off", "loop"
    sim_settings,   \* the settings dict of the run
    sim_idx,        \* how many signals the loop has taken
    sim_balance,    \* the running balance
    sim_history,    \* trade_history
    sim_curve,      \* equity_curve
    sim_args        \* per recorded trade: the signal, the rows and the balance
                    \* passed to _simulate_trade

searchVars == <<spc, data, entry_zones, position_type, targets, stop_loss, entry, exit>>

runVars == <<rpc, initial_balance, settings, signals, idx, balance, trade_history,
             equity_curve, signal, response, trade_result, branch, returned_at,
             before, report>>

execVars == <<epc, signal_data, exec_settings, position_size, step, calls,
              entry_orders, target_orders, stop_order, result>>

sizeVars == <<zpc, size_args, backtest_size, manager_size>>

metricVars == <<mpc, metric_args, computed_metrics>>

parseVars == <<ppc, texts, intents>>

simVars == <<tpc, sim_settings, sim_idx, sim_balance, sim_history, sim_curve, sim_args>>

vars == <<runVars, searchVars, execVars, sizeVars, metricVars, parseVars, simVars>>

(***************************************************************************)
(* BacktestEngine._find_entry_point                                        *)
(***************************************************************************)
\* the inner loop over entry_zones, from list position j on: the position of
\* the first price inside the candle's range, 0 when there is none
RECURSIVE EntryInRow(_, _, _)
EntryInRow(row, zones, j) ==
    IF j > Len(zones) THEN 0
    ELSE IF row.low <= zones[j] /\ zones[j] <= row.high THEN j
    ELSE EntryInRow(row, zones, j + 1)

\* the outer loop over the rows, from row k on
RECURSIVE EntryScan(_, _, _)
EntryScan(rows, zones, k) ==
    IF k > Len(rows) THEN [price |-> None, time |-> None]
    ELSE LET j == EntryInRow(rows[k], zones, 1) IN
         IF j # 0 THEN [price |-> zones[j], time |-> rows[k].timestamp]
         ELSE EntryScan(rows, zones, k + 1)

\* faulty variant: the loops nested the other way round (each price in list order, and
\* for it the first candle that contains it)
RECURSIVE RowWithEntry(_, _, _)
RowWithEntry(rows, price, k) ==
    IF k > Len(rows) THEN 0
    ELSE IF rows[k].low <= price /\ price <= rows[k].high THEN k
    ELSE RowWithEntry(rows, price, k + 1)

RECURSIVE EntryScanByPrice(_, _, _)
EntryScanByPrice(rows, zones, j) ==
    IF j > Len(zones) THEN [price |-> None, time |-> None]
    ELSE LET k == RowWithEntry(rows, zones[j], 1) IN
         IF k # 0 THEN [price |-> zones[j], time |-> rows[k].timestamp]
         ELSE EntryScanByPrice(rows, zones, j + 1)

find_entry_point_by_price(rows, zones, ptype) == EntryScanByPrice(rows, zones, 1)

find_entry_point(rows, zones, ptype) == EntryScan(rows, zones, 1)

(***************************************************************************)
(* BacktestEngine._find_exit_point                                         *)
(***************************************************************************)
\* Python truth value of a stop price: None and 0 are false
Truthy(x) == x # None /\ x # 0

\* the loop over targets, from list position j on: the position of the first
\* target the candle reaches, 0 when there is none
RECURSIVE TargetInRow(_, _, _, _)
TargetInRow(row, tgts, ptype, j) ==
    IF j > Len(tgts) THEN 0
    ELSE IF ptype = LONG /\ row.high >= tgts[j] THEN j
    ELSE IF ptype = SHORT /\ row.low <= tgts[j] THEN j
    ELSE TargetInRow(row, tgts, ptype, j + 1)

StopInRow(row, stop, ptype) ==
    /\ Truthy(stop)
    /\ \/ ptype = LONG /\ row.low <= stop
       \/ ptype = SHORT /\ row.high >= stop

\* the loop over exit_data, from row k on, and the fallback after it
RECURSIVE ExitScan(_, _, _, _, _)
ExitScan(rows, tgts, stop, ptype, k) ==
    IF k > Len(rows)
    THEN [price |-> rows[Len(rows)].close,
          time |-> rows[Len(rows)].timestamp, reason |-> "timeout"]
    ELSE IF StopInRow(rows[k], stop, ptype)
    THEN [price |-> stop, time |-> rows[k].timestamp, reason |-> "stop_loss"]
    ELSE LET j == TargetInRow(rows[k], tgts, ptype, 1) IN
         IF j # 0
         THEN [price |-> tgts[j], time |-> rows[k].timestamp, reason |-> "target"]
         ELSE ExitScan(rows, tgts, stop, ptype, k + 1)

\* faulty variant: the targets are tested before the stop
RECURSIVE ExitScanTargetsFirst(_, _, _, _, _)
ExitScanTargetsFirst(rows, tgts, stop, ptype, k) ==
    IF k > Len(rows)
    THEN [price |-> rows[Len(rows)].close,
          time |-> rows[Len(rows)].timestamp, reason |-> "timeout"]
    ELSE LET j == TargetInRow(rows[k], tgts, ptype, 1) IN
         IF j # 0
         THEN [price |-> tgts[j], time |-> rows[k].timestamp, reason |-> "target"]
         ELSE IF StopInRow(rows[k], stop, ptype)
         THEN [price |-> stop, time |-> rows[k].timestamp, reason |-> "stop_loss"]
         ELSE ExitScanTargetsFirst(rows, tgts, stop, ptype, k + 1)

\* faulty variant: the fallback reads the first row of exit_data (iloc[0]) instead of
\* the last
RECURSIVE ExitScanFirstClose(_, _, _, _, _)
ExitScanFirstClose(rows, tgts, stop, ptype, k) ==
    IF k > Len(rows)
    THEN [price |-> rows[1].close,
          time |-> rows[1].timestamp, reason |-> "timeout"]
    ELSE IF StopInRow(rows[k], stop, ptype)
    THEN [price |-> stop, time |-> rows[k].timestamp, reason |-> "stop_loss"]
    ELSE LET j == TargetInRow(rows[k], tgts, ptype, 1) IN
         IF j # 0
         THEN [price |-> tgts[j], time |-> rows[k].timestamp, reason |-> "target"]
         ELSE ExitScanFirstClose(rows, tgts, stop, ptype, k + 1)

\* faulty variant: the candle of the entry is searched too
RowsFrom(rows, entry_time) == SelectSeq(rows, LAMBDA r : r.timestamp >= entry_time)

\* data[data.index > entry_time]
RowsAfter(rows, entry_time) == SelectSeq(rows, LAMBDA r : r.timestamp > entry_time)

find_exit_point_targets_first(rows, entry_time, tgts, stop, ptype) ==
    LET exit_data == RowsAfter(rows, entry_time) IN
    IF exit_data = <<>>
    THEN [price |-> None, time |-> None, reason |-> NoReason]
    ELSE ExitScanTargetsFirst(exit_data, tgts, stop, ptype, 1)

find_exit_point_first_close(rows, entry_time, tgts, stop, ptype) ==
    LET exit_data == RowsAfter(rows, entry_time) IN
    IF exit_data = <<>>
    THEN [price |-> None, time |-> None, reason |-> NoReason]
    ELSE ExitScanFirstClose(exit_data, tgts, stop, ptype, 1)

find_exit_point(rows, entry_time, tgts, stop, ptype) ==
    LET exit_data == RowsAfter(rows, entry_time) IN
    IF exit_data = <<>>
    THEN [price |-> None, time |-> None, reason |-> NoReason]
    ELSE ExitScan(exit_data, tgts, stop, ptype, 1)

(***************************************************************************)
(* Numbers.  A Python float is the rational <<n, d>> in lowest terms with  *)
(* d > 0.  A division by zero of a numpy float64 does not raise, it gives  *)
(* nan or +-inf: these are <<0, 0>>, <<1, 0>> and <<-1, 0>>.               *)
(***************************************************************************)
Abs(x) == IF x < 0 THEN -x ELSE x

RECURSIVE Gcd(_, _)
Gcd(a, b) == IF b = 0 THEN a ELSE Gcd(b, a % b)

Sign(i) == IF i > 0 THEN 1 ELSE IF i < 0 THEN -1 ELSE 0

Rat(n, d) ==
    IF d = 0 THEN <<Sign(n), 0>>
    ELSE LET g == Gcd(Abs(n), Abs(d))
             s == IF d < 0 THEN -1 ELSE 1
         IN  <<(s * n) \div g, (s * d) \div g>>

R(i) == <<i, 1>>
Zero == R(0)
NaN == <<0, 0>>
Finite(x) == x[2] # 0

RAdd(x, y) == Rat(x[1] * y[2] + y[1] * x[2], x[2] * y[2])
RSub(x, y) == Rat(x[1] * y[2] - y[1] * x[2], x[2] * y[2])
RMul(x, y) == Rat(x[1] * y[1], x[2] * y[2])
\* x / y for y # 0
RDiv(x, y) == Rat(x[1] * y[2], x[2] * y[1])
\* x / 0 in numpy arithmetic
NpDivZero(x) == <<Sign(x[1]), 0>>
RLt(x, y) == x[1] * y[2] < y[1] * x[2]
RLe(x, y) == x[1] * y[2] <= y[1] * x[2]
\* faulty variant: the sign is kept
RSigned(x) == x
RAbs(x) == <<Abs(x[1]), x[2]>>
\* Python's min(x, y): y when y < x, else x
RMin(x, y) == IF RLt(y, x) THEN y ELSE x
\* Python's max(x, y): y when y > x, else x
RMax(x, y) == IF RLt(x, y) THEN y ELSE x

RECURSIVE RSum(_)
RSum(xs) == IF xs = <<>> THEN Zero ELSE RAdd(xs[1], RSum(Tail(xs)))

(***************************************************************************)
(* Rounding.  A float is <<m, e>>, the number m * 2^e, with a mantissa m   *)
(* of MantissaBits bits (53 in the code); zero is <<0, 0>>.  The result of *)
(* an operation is the exact result rounded to the nearest float, to the   *)
(* one with the even mantissa on a tie.  The sums and differences of the   *)
(* amounts above are whole numbers, exact in the code; the quotient of a   *)
(* return and the operations of numpy.mean and numpy.std are rounded.      *)
(***************************************************************************)
MantissaBits == 7

RECURSIVE Pow2(_)
Pow2(k) == IF k = 0 THEN 1 ELSE 2 * Pow2(k - 1)

\* a / d scaled by a power of two into [2^(MantissaBits-1), 2^MantissaBits):
\* <<a', d', e>> with a / d = a' / d' * 2^e
RECURSIVE Normalise(_, _, _)
Normalise(a, d, e) ==
    IF a \div Pow2(MantissaBits) >= d
    THEN IF a % 2 = 0 THEN Normalise(a \div 2, d, e + 1)
         ELSE Normalise(a, 2 * d, e + 1)
    ELSE IF a \div Pow2(MantissaBits - 1) < d
    THEN IF d % 2 = 0 THEN Normalise(a, d \div 2, e - 1)
         ELSE Normalise(2 * a, d, e - 1)
    ELSE <<a, d, e>>

\* the quotient q with remainder rem of a division by d, rounded to the
\* nearest whole number, to the even one on a tie
RoundHalfEven(q, rem, d) ==
    IF 2 * rem > d \/ (2 * rem = d /\ q % 2 = 1) THEN q + 1 ELSE q

\* the float nearest to the rational x, x finite
Float(x) ==
    IF x[1] = 0 THEN <<0, 0>>
    ELSE LET s == Normalise(Abs(x[1]), x[2], 0)
             m == RoundHalfEven(s[1] \div s[2], s[1] % s[2], s[2])
         IN  IF m = Pow2(MantissaBits)
             THEN <<Sign(x[1]) * Pow2(MantissaBits - 1), s[3] + 1>>
             ELSE <<Sign(x[1]) * m, s[3]>>

\* the rational a float is
Rational(f) ==
    IF f[2] >= 0 THEN R(f[1] * Pow2(f[2])) ELSE Rat(f[1], Pow2(-f[2]))

Scaled(f, e) == IF f[1] = 0 THEN f ELSE <<f[1], f[2] + e>>

FMul(x, y) == Scaled(Float(R(x[1] * y[1])), x[2] + y[2])

\* x / y for y # 0
FDiv(x, y) == Scaled(Float(Rat(x[1], y[1])), x[2] - y[2])

\* a summand more than MantissaBits + 1 binary places below the other is
\* less than a quarter of its last place and is rounded away
FAdd(x, y) ==
    IF x[1] = 0 THEN y
    ELSE IF y[1] = 0 THEN x
    ELSE LET big == IF x[2] >= y[2] THEN x ELSE y
             small == IF x[2] >= y[2] THEN y ELSE x
             diff == big[2] - small[2]
         IN  IF diff >= MantissaBits + 2 THEN big
             ELSE Scaled(Float(R(big[1] * Pow2(diff) + small[1])), small[2])

FSub(x, y) == FAdd(x, <<-y[1], y[2]>>)

\* numpy.add.reduce over xs[1 .. n]: from the left, each sum rounded
RECURSIVE AddReduce(_, _)
AddReduce(xs, n) ==
    IF n = 1 THEN xs[1] ELSE FAdd(AddReduce(xs, n - 1), xs[n])

(***************************************************************************)
(* BacktestEngine._calculate_position_size                                 *)
(***************************************************************************)
\* min(default_size, balance * 0.1)
DefaultSize(bal, default_size) == RMin(R(default_size), RMul(bal, Rat(1, 10)))

\* faulty variant: the risk-based size has no cap
calculate_position_size_nocap(bal, default_size, risk_percentage, entry_price, stop) ==
    IF ~Truthy(stop) \/ ~Truthy(entry_price) \/ stop <= 0 \/ entry_price <= 0
    THEN DefaultSize(bal, default_size)
    ELSE LET risk_per_unit == Rat(Abs(entry_price - stop), entry_price) IN
         IF RLt(Zero, risk_per_unit)
         THEN LET risk_amount == RMul(bal, Rat(risk_percentage, 100))
              IN  RDiv(risk_amount, risk_per_unit)
         ELSE DefaultSize(bal, default_size)

\* faulty variant: the risk-based size is capped at 10% of the balance
calculate_position_size_cap10(bal, default_size, risk_percentage, entry_price, stop) ==
    IF ~Truthy(stop) \/ ~Truthy(entry_price) \/ stop <= 0 \/ entry_price <= 0
    THEN DefaultSize(bal, default_size)
    ELSE LET risk_per_unit == Rat(Abs(entry_price - stop), entry_price) IN
         IF RLt(Zero, risk_per_unit)
         THEN LET risk_amount == RMul(bal, Rat(risk_percentage, 100))
                  max_size == RDiv(risk_amount, risk_per_unit)
              IN  RMin(max_size, RMul(bal, Rat(1, 10)))
         ELSE DefaultSize(bal, default_size)

calculate_position_size(bal, default_size, risk_percentage, entry_price, stop) ==
    IF ~Truthy(stop) \/ ~Truthy(entry_price) \/ stop <= 0 \/ entry_price <= 0
    THEN DefaultSize(bal, default_size)
    ELSE LET risk_per_unit == Rat(Abs(entry_price - stop), entry_price) IN
         IF RLt(Zero, risk_per_unit)
         THEN LET risk_amount == RMul(bal, Rat(risk_percentage, 100))
                  max_size == RDiv(risk_amount, risk_per_unit)
              IN  RMin(max_size, RMul(bal, Rat(1, 5)))
         ELSE DefaultSize(bal, default_size)

(***************************************************************************)
(* BacktestEngine._get_historical_data.  The provider's answer is an HTTP  *)
(* status and the klines of the body; status 0 stands for requests.get     *)
(* raising.  The result is None or a DataFrame, which may have no rows.    *)
(***************************************************************************)
NoData == [is_none |-> TRUE, rows |-> <<>>]
DataFrame(rows) == [is_none |-> FALSE, rows |-> rows]

get_historical_data(resp) ==
    IF resp.status # 200 THEN NoData ELSE DataFrame(resp.klines)

\* bool(df), which `not historical_data` evaluates for a DataFrame: pandas
\* raises ValueError ("The truth value of a DataFrame is ambiguous") for every
\* DataFrame, with or without rows
DataFrameBool(df) == "ValueError"

\* `not historical_data` (line 122): "True" for None, else what bool(df) gives
NotHistoricalData(hd) ==
    IF hd.is_none THEN "True"
    ELSE LET b == DataFrameBool(hd) IN
         IF b = "ValueError" THEN b
         ELSE IF b = "True" THEN "False" ELSE "True"

(***************************************************************************)
(* BacktestEngine._simulate_trade.  The result is [trade, at]: trade is    *)
(* <<>> for None and <<t>> for a trade dict t, and at names the statement  *)
(* that ended the call (for an exception caught at line 174, the           *)
(* exception).  In a trade, np says that pnl is a numpy float64: the close *)
(* of a row is one, the prices of the signal are Python floats.            *)
(***************************************************************************)
NoTrade == <<>>
ReturnNone(at) == [trade |-> NoTrade, at |-> at]

\* settings.get('default_position_size', 10.0), settings.get('risk_percentage', 2.0)
DefaultPositionSize == 10
RiskPercentage == 2

\* faulty variant: the leverage is not applied
TradePnlUnleveraged(ptype, entry_price, exit_price, size, leverage) ==
    LET delta == IF ptype = LONG THEN exit_price - entry_price
                 ELSE entry_price - exit_price
    IN  RMul(Rat(delta, entry_price), size)

\* lines 148-156: the pnl of a trade
TradePnl(ptype, entry_price, exit_price, size, leverage) ==
    LET delta == IF ptype = LONG THEN exit_price - entry_price
                 ELSE entry_price - exit_price
    IN  RMul(RMul(Rat(delta, entry_price), size), R(leverage))

\* lines 125-172, once historical_data passed the test of line 122
TradeFromData(sig, cfg, bal, rows) ==
    LET position_sized ==
            calculate_position_size(bal, cfg.default_position_size,
                cfg.risk_percentage, sig.entry_zones[1], sig.stop_loss)
        en == find_entry_point(rows, sig.entry_zones, sig.position_type)
    IN
    IF ~Truthy(en.price) THEN ReturnNone("no_entry")            \* line 138
    ELSE
    LET ex == find_exit_point(rows, en.time, sig.targets, sig.stop_loss,
                              sig.position_type) IN
    IF ~Truthy(ex.price) THEN ReturnNone("no_exit")             \* line 146
    ELSE
    LET pnl == TradePnl(sig.position_type, en.price, ex.price, position_sized,
                        sig.leverage)
        np == ex.reason = "timeout"
    IN
    \* pnl / position_size: a Python float divided by 0.0 raises
    \* ZeroDivisionError, caught at line 174
    IF position_sized = Zero /\ ~np THEN ReturnNone("ZeroDivisionError")
    ELSE [at |-> "trade", trade |->
          <<[position_type |-> sig.position_type,
            entry_price |-> en.price,
            exit_price |-> ex.price,
            entry_time |-> en.time,
            exit_time |-> ex.time,
            position_size |-> position_sized,
            leverage |-> sig.leverage,
            pnl |-> pnl,
            pnl_percentage |->
                IF position_sized = Zero THEN NaN
                ELSE RMul(RDiv(pnl, position_sized), R(100)),
            exit_reason |-> ex.reason,
            duration_hours |-> ex.time - en.time,
            np |-> np]>>]

simulate_trade(sig, cfg, bal, resp) ==
    \* signal['position_type'] of a dict without the key: KeyError, caught
    IF ~sig.has_position_type THEN ReturnNone("KeyError")
    ELSE IF sig.entry_zones = <<>> THEN ReturnNone("no_entry_zones")    \* line 118
    ELSE LET historical_data == get_historical_data(resp)
             test == NotHistoricalData(historical_data)
         IN  \* except Exception (lines 174-176): return None
             IF test = "ValueError" THEN ReturnNone("ValueError")
             ELSE IF test = "True" THEN ReturnNone("no_data")           \* line 123
             ELSE TradeFromData(sig, cfg, bal, historical_data.rows)

(***************************************************************************)
(* BacktestEngine._calculate_metrics.  An equity value is [v, np]: the     *)
(* amount and whether it is a numpy float64.  A loop result is             *)
(* [raised, value]: raised says that a ZeroDivisionError left the loop.    *)
(***************************************************************************)
\* the dict of lines 295-300 and 353-358: these four keys and no other
DefaultMetrics ==
    [max_drawdown |-> Zero, sharpe_ratio |-> Zero,
     average_trade |-> Zero, profit_factor |-> Zero]

EquityValues(init, curve) ==
    <<[v |-> R(init), np |-> FALSE]>> \o
    [k \in 1 .. Len(curve) |->
        [v |-> curve[k].balance, np |-> curve[k].np]]

\* a / b where b may be zero: Python floats raise, a numpy operand gives inf or nan
Quotient(a, b) ==
    IF b.v # Zero THEN [raised |-> FALSE, value |-> RDiv(a.v, b.v)]
    ELSE IF ~a.np /\ ~b.np THEN [raised |-> TRUE, value |-> Zero]
    ELSE [raised |-> FALSE, value |-> NpDivZero(a.v)]

\* faulty variant: the peak stays at the first value
RECURSIVE DrawdownLoopFixedPeak(_, _, _, _)
DrawdownLoopFixedPeak(values, k, peak, max_drawdown) ==
    IF k > Len(values) THEN [raised |-> FALSE, value |-> max_drawdown]
    ELSE LET value == values[k]
             q == Quotient([v |-> RSub(peak.v, value.v), np |-> peak.np \/ value.np], peak)
         IN  IF q.raised THEN q
             ELSE DrawdownLoopFixedPeak(values, k + 1, peak,
                                        RMax(max_drawdown, RMul(q.value, R(100))))

\* lines 306-313, from value k on
RECURSIVE DrawdownLoop(_, _, _, _)
DrawdownLoop(values, k, peak, max_drawdown) ==
    IF k > Len(values) THEN [raised |-> FALSE, value |-> max_drawdown]
    ELSE LET value == values[k]
             pk == IF RLt(peak.v, value.v) THEN value ELSE peak
             q == Quotient([v |-> RSub(pk.v, value.v), np |-> pk.np \/ value.np], pk)
         IN  IF q.raised THEN q
             ELSE DrawdownLoop(values, k + 1, pk,
                               RMax(max_drawdown, RMul(q.value, R(100))))

\* lines 316-319, from index i on: [raised, value], value the list of returns
RECURSIVE ReturnsLoop(_, _)
ReturnsLoop(values, i) ==
    IF i > Len(values) THEN [raised |-> FALSE, value |-> <<>>]
    ELSE LET q == Quotient([v |-> RSub(values[i].v, values[i - 1].v),
                            np |-> values[i].np \/ values[i - 1].np],
                           values[i - 1])
             rest == ReturnsLoop(values, i + 1)
         IN  IF q.raised THEN q
             ELSE IF rest.raised THEN rest
             ELSE [raised |-> FALSE, value |-> <<q.value>> \o rest.value]

\* numpy.mean of whole amounts (line 333)
Mean(xs) == RDiv(RSum(xs), R(Len(xs)))

\* numpy.mean of floats: add.reduce(xs) / len(xs)
FMean(xs) == FDiv(AddReduce(xs, Len(xs)), Float(R(Len(xs))))

\* np.std(xs) ** 2: the mean of the squares of xs - mean(xs)
Variance(xs) ==
    LET m == FMean(xs)
        x == [k \in 1 .. Len(xs) |-> FSub(xs[k], m)]
    IN  FMean([k \in 1 .. Len(xs) |-> FMul(x[k], x[k])])

\* lines 322-326.  mean / std * sqrt(252) is irrational: the model holds the
\* number s by sign(s) * s^2 = sign(mean) * mean^2 / variance * 252, which is
\* 0 exactly when s is.  np.std is the root of the variance: it is > 0 exactly
\* when the variance is.  A nan or inf among the returns makes np.std nan, and
\* nan > 0 is false.
SharpeRatio(returns) ==
    IF returns = <<>> THEN Zero
    ELSE IF \E k \in 1 .. Len(returns) : ~Finite(returns[k]) THEN Zero
    ELSE LET rets == [k \in 1 .. Len(returns) |-> Float(returns[k])]
             m == FMean(rets)
             var == Variance(rets)
         IN  IF var[1] > 0
             THEN Rational(FMul(Float(R(Sign(m[1]) * 252)), FDiv(FMul(m, m), var)))
             ELSE Zero

RECURSIVE RMaxOf(_)
RMaxOf(xs) == IF Len(xs) = 1 THEN xs[1] ELSE RMax(xs[1], RMaxOf(Tail(xs)))

RECURSIVE RMinOf(_)
RMinOf(xs) == IF Len(xs) = 1 THEN xs[1] ELSE RMin(xs[1], RMinOf(Tail(xs)))

calculate_metrics(history, init, final, curve) ==
    IF history = <<>> THEN DefaultMetrics
    ELSE
    LET equity_values == EquityValues(init, curve)
        dd == DrawdownLoop(equity_values, 1, equity_values[1], Zero)
        rets == ReturnsLoop(equity_values, 2)
    IN
    \* except Exception (lines 351-358)
    IF dd.raised \/ rets.raised THEN DefaultMetrics
    ELSE
    LET trade_pnls == [k \in 1 .. Len(history) |-> history[k].pnl]
        winning_trades == SelectSeq(trade_pnls, LAMBDA x : RLt(Zero, x))
        losing_trades == SelectSeq(trade_pnls, LAMBDA x : RLe(x, Zero))
        gross_profit == RSum(winning_trades)
        gross_loss == RAbs(RSum(losing_trades))
    IN
    [max_drawdown |-> dd.value,
     sharpe_ratio |-> SharpeRatio(rets.value),
     average_trade |-> Mean(trade_pnls),
     profit_factor |->
        IF RLt(Zero, gross_loss) THEN RDiv(gross_profit, gross_loss) ELSE Zero,
     gross_profit |-> gross_profit,
     gross_loss |-> gross_loss,
     largest_win |-> IF winning_trades # <<>> THEN RMaxOf(winning_trades) ELSE Zero,
     largest_loss |-> IF losing_trades # <<>> THEN RMinOf(losing_trades) ELSE Zero]

(***************************************************************************)
(* BacktestEngine.run_backtest                                             *)
(***************************************************************************)
\* whether the running balance is a numpy float64: it is initial_balance
\* plus the pnl of the recorded trades
BalanceNp(history) == \E k \in 1 .. Len(history) : history[k].np

Snapshot(history, bal, curve) ==
    [trade_history |-> history, balance |-> bal, equity_curve |-> curve]

\* the equity point of lines 68-72
EquityPoint(history, bal, trade) ==
    [timestamp |-> trade.exit_time,
     balance |-> RAdd(bal, trade.pnl),
     trade_pnl |-> trade.pnl,
     np |-> BalanceNp(history) \/ trade.np]

\* faulty variant: an equity point is appended for every simulated signal, trade or not
RecordTradeAlwaysPoint(history, bal, curve, outcome) ==
    IF outcome = NoTrade
    THEN Snapshot(history, bal,
             Append(curve, [timestamp |-> None, balance |-> bal,
                            trade_pnl |-> Zero, np |-> BalanceNp(history)]))
    ELSE Snapshot(Append(history, outcome[1]), RAdd(bal, outcome[1].pnl),
                  Append(curve, EquityPoint(history, bal, outcome[1])))

\* lines 63-72: `if trade_result:` the trade is appended, the balance updated,
\* the equity point appended
RecordTrade(history, bal, curve, outcome) ==
    IF outcome = NoTrade
    THEN Snapshot(history, bal, curve)
    ELSE Snapshot(Append(history, outcome[1]), RAdd(bal, outcome[1].pnl),
                  Append(curve, EquityPoint(history, bal, outcome[1])))

\* faulty variant: the exception of the loop body is not caught and ends the run
AfterIterationUncaught(b) == IF b = "except" THEN "raised" ELSE "loop"

\* where the run stands after an iteration that ended in branch b: the
\* `continue` of line 56, the one of line 78 and the end of the body all go on
\* with the next signal
AfterIteration(b) == "loop"

\* how one iteration of the loop (lines 53-78) ends for a signal
LoopBranch(sig) ==
    IF ~sig.is_dict THEN "except"            \* signal.get: AttributeError
    ELSE IF sig.coin = "" \/ sig.entry_zones = <<>> THEN "continue"
    ELSE "simulated"

\* lines 85-99.  [raised, report]: line 89 divides by initial_balance, and the
\* ZeroDivisionError of Python floats is re-raised by lines 101-103
ReturnValue(init, bal, history, curve) ==
    LET metrics == calculate_metrics(history, init, bal, curve)
        total_pnl == RSub(bal, R(init))
        q == Quotient([v |-> total_pnl, np |-> BalanceNp(history)],
                      [v |-> R(init), np |-> FALSE])
        wins == Cardinality({k \in 1 .. Len(history) : RLt(Zero, history[k].pnl)})
        losses == Cardinality({k \in 1 .. Len(history) : RLe(history[k].pnl, Zero)})
    IN
    IF q.raised THEN [raised |-> TRUE, report |-> <<>>]
    ELSE [raised |-> FALSE,
          report |-> <<[initial_balance |-> R(init),
                        final_balance |-> bal,
                        total_pnl |-> total_pnl,
                        total_pnl_percentage |-> RMul(q.value, R(100)),
                        total_trades |-> Len(history),
                        winning_trades |-> wins,
                        losing_trades |-> losses,
                        win_rate |->
                            IF history # <<>>
                            THEN RMul(Rat(wins, Len(history)), R(100))
                            ELSE Zero,
                        max_drawdown |-> metrics.max_drawdown,
                        sharpe_ratio |-> metrics.sharpe_ratio,
                        trade_history |-> history,
                        equity_curve |-> curve,
                        metrics |-> metrics]>>]

(***************************************************************************)
(* The inputs of the run specification.                                    *)
(***************************************************************************)
\* a list element that is no dict
NotADict ==
    [is_dict |-> FALSE, coin |-> "", has_position_type |-> FALSE,
     position_type |-> LONG, entry_zones |-> <<>>, targets |-> <<>>,
     stop_loss |-> None, leverage |-> 1]

\* coin "" stands for a missing or empty coin
RunSignals ==
    {NotADict} \cup
    {sig \in [is_dict : {TRUE}, coin : {"BTC", ""}, has_position_type : BOOLEAN,
              position_type : {LONG, SHORT},
              entry_zones : {<<>>, <<2>>}, targets : {<<MaxPrice>>},
              stop_loss : {None, 1}, leverage : {1}] :
        ~sig.has_position_type => sig.position_type = LONG}

\* the provider's series of the run specification: candles with low = high
RunSeries ==
    {rows \in SeriesUpTo(RunCandles) :
        \A k \in 1 .. Len(rows) : rows[k].low = rows[k].high}

NoResponse == [status |-> -1, klines |-> <<>>]

Responses ==
    {[status |-> 0, klines |-> <<>>], [status |-> 500, klines |-> <<>>]}
    \cup {[status |-> 200, klines |-> rows] : rows \in RunSeries}

\* _get_historical_data is called when line 121 is reached
ResponsesTo(sig) ==
    IF LoopBranch(sig) = "simulated" /\ sig.has_position_type
    THEN Responses ELSE {NoResponse}

InitialBalances == {0, 1000}

(***************************************************************************)
(* BitunixTradeManager (bitunix_api.py).  The gateway is BitunixAPI: every *)
(* call of set_leverage or place_order is one request, and a request that  *)
(* fails raises (_make_request, lines 46-96).                              *)
(***************************************************************************)
\* settings.get('default_position_size', 10.0), settings.get('risk_percentage', 2.0)
BaseSize == 10
BaseRiskPercentage == 2
\* the cap of the risk-based size, in base sizes
SizeCap == 5
DefaultEntryDistribution == <<40, 35, 25>>
DefaultTargetDistribution == <<50, 30, 20>>

\* faulty variant: the risk-based size is not capped
manager_calculate_position_size_uncapped(base_size, risk_percentage, entry_price, stop) ==
    IF ~Truthy(stop) \/ ~Truthy(entry_price) \/ stop <= 0 \/ entry_price <= 0
    THEN R(base_size)
    ELSE LET risk_per_unit == Rat(Abs(entry_price - stop), entry_price)
             max_size == RMul(RDiv(Rat(risk_percentage, 100), risk_per_unit),
                              R(base_size))
         IN  IF RLt(Zero, risk_per_unit) THEN max_size ELSE R(base_size)

\* BitunixTradeManager._calculate_position_size
manager_calculate_position_size(base_size, risk_percentage, entry_price, stop) ==
    IF ~Truthy(stop) \/ ~Truthy(entry_price) \/ stop <= 0 \/ entry_price <= 0
    THEN R(base_size)
    ELSE LET risk_per_unit == Rat(Abs(entry_price - stop), entry_price)
             max_size == RMul(RDiv(Rat(risk_percentage, 100), risk_per_unit),
                              R(base_size))
         IN  IF RLt(Zero, risk_per_unit)
             THEN RMin(max_size, RMul(R(base_size), R(SizeCap)))
             ELSE R(base_size)

\* faulty variant: the target ladder is placed before the entry ladder
StagesTargetsFirst == <<"set_leverage", "targets", "entries", "stop", "done">>

\* the statements of execute_signal that call the gateway, in program order,
\* and its return
Stages == <<"set_leverage", "entries", "targets", "stop", "done">>

EntrySide(ptype) == IF ptype = LONG THEN "buy" ELSE "sell"
ExitSide(ptype) == IF ptype = LONG THEN "sell" ELSE "buy"

Min(a, b) == IF a < b THEN a ELSE b
EntrySteps(sd, cfg) == Min(Len(sd.entry_zones), Len(cfg.entry_distribution))
TargetSteps(sd, cfg) == Min(Len(sd.targets), Len(cfg.target_distribution))

\* how many gateway calls a stage makes for this signal
StageCalls(stage, sd, cfg) ==
    CASE stage = "set_leverage" -> 1
      [] stage = "entries" -> EntrySteps(sd, cfg)
      [] stage = "targets" -> TargetSteps(sd, cfg)
      [] stage = "stop" -> IF Truthy(sd.stop_loss) THEN 1 ELSE 0
      [] OTHER -> 1

StagePosition(stage) == CHOOSE k \in 1 .. Len(Stages) : Stages[k] = stage

RECURSIVE StageFrom(_, _, _)
StageFrom(k, sd, cfg) ==
    IF k >= Len(Stages) THEN "done"
    ELSE IF StageCalls(Stages[k], sd, cfg) > 0 THEN Stages[k]
    ELSE StageFrom(k + 1, sd, cfg)

\* the next statement after `stage` that does something for this signal
StageAfter(stage, sd, cfg) == StageFrom(StagePosition(stage) + 1, sd, cfg)

\* one call received by the gateway.  ladder and rung say which statement made
\* it; ok is whether the request succeeded
LeverageCall(sd, ok) ==
    [api |-> "set_leverage", ladder |-> "leverage", rung |-> 0,
     side |-> "", order_type |-> "", size |-> Zero, price |-> None,
     reduce_only |-> FALSE, leverage |-> sd.leverage,
     margin_mode |-> IF sd.cross_leverage THEN "cross" ELSE "isolated",
     ok |-> ok]

OrderCall(ladder, rung, side, order_type, size, price, reduce_only, ok) ==
    [api |-> "place_order", ladder |-> ladder, rung |-> rung,
     side |-> side, order_type |-> order_type, size |-> size, price |-> price,
     reduce_only |-> reduce_only, leverage |-> None, margin_mode |-> "",
     ok |-> ok]

\* BitunixAPI.place_order: the body of the request the gateway receives for
\* the call c.  The price is put into it for limit orders only (line 151).
\* size and price go as str(float), the shortest text that reads back as the
\* same float, so the number the gateway reads is the number passed
place_order(c) ==
    [side |-> c.side, type |-> c.order_type, size |-> c.size,
     timeInForce |-> "GTC", reduceOnly |-> c.reduce_only,
     price |-> IF Truthy(c.price) /\ c.order_type = "limit" THEN c.price ELSE None]

\* faulty variant: every entry step gets the same share of the size
EntryOrderEqualSplit(sd, cfg, total_size, i, ok) ==
    OrderCall("entry", i, EntrySide(sd.position_type), "limit",
              RDiv(total_size, R(EntrySteps(sd, cfg))),
              sd.entry_zones[i], FALSE, ok)

\* faulty variant: target steps are placed like entry steps, on the entry side
\* and not reduce-only
TargetOrderLikeEntry(sd, cfg, total_size, i, ok) ==
    OrderCall("target", i, EntrySide(sd.position_type), "limit",
              RMul(total_size, Rat(cfg.target_distribution[i], 100)),
              sd.targets[i], FALSE, ok)

\* the i-th call of _place_entry_orders
EntryOrder(sd, cfg, total_size, i, ok) ==
    OrderCall("entry", i, EntrySide(sd.position_type), "limit",
              RMul(total_size, Rat(cfg.entry_distribution[i], 100)),
              sd.entry_zones[i], FALSE, ok)

\* the i-th call of _place_target_orders
TargetOrder(sd, cfg, total_size, i, ok) ==
    OrderCall("target", i, ExitSide(sd.position_type), "limit",
              RMul(total_size, Rat(cfg.target_distribution[i], 100)),
              sd.targets[i], TRUE, ok)

\* the call of _place_stop_loss_order
StopOrder(sd, total_size, ok) ==
    OrderCall("stop", 1, ExitSide(sd.position_type), "stop_market",
              total_size, sd.stop_loss, TRUE, ok)

\* the dict execute_signal returns
ExecSuccess(sd, size, eo, to, so) ==
    [success |-> TRUE, error |-> "", position_type |-> sd.position_type,
     position_size |-> size, leverage |-> sd.leverage,
     entry_orders |-> eo, target_orders |-> to, stop_order |-> so]

ExecFailure(sd, error) ==
    [success |-> FALSE, error |-> error, position_type |-> sd.position_type,
     position_size |-> Zero, leverage |-> sd.leverage,
     entry_orders |-> <<>>, target_orders |-> <<>>, stop_order |-> <<>>]

\* a parsed signal as execute_signal reads it; has_keys: the keys read by
\* subscript (coin, pair, position_type, entry_zones, targets, stop_loss) exist
ParsedSignal(has_keys, ptype, zones, tgts, stop, cross) ==
    [has_keys |-> has_keys, position_type |-> ptype, entry_zones |-> zones,
     targets |-> tgts, stop_loss |-> stop, leverage |-> 1,
     cross_leverage |-> cross]

ExecSignals ==
    {ParsedSignal(TRUE, p, z, t, s, c) :
        p \in {LONG, SHORT}, z \in SeqsBetween(Prices, 0, MaxZones),
        t \in SeqsBetween(Prices, 0, MaxTargets), s \in Prices \cup {None, 0},
        c \in BOOLEAN}
    \cup {ParsedSignal(FALSE, LONG, <<>>, <<>>, None, FALSE)}

ExecSettings ==
    [default_position_size : {BaseSize}, risk_percentage : {BaseRiskPercentage, 200},
     entry_distribution : {DefaultEntryDistribution, <<100>>},
     target_distribution : {DefaultTargetDistribution, <<100>>}]

ExecIdle ==
    /\ epc = "off"
    /\ signal_data = ParsedSignal(FALSE, LONG, <<>>, <<>>, None, FALSE)
    /\ exec_settings = [default_position_size |-> BaseSize,
                        risk_percentage |-> BaseRiskPercentage,
                        entry_distribution |-> DefaultEntryDistribution,
                        target_distribution |-> DefaultTargetDistribution]
    /\ position_size = Zero
    /\ step = 0
    /\ calls = <<>>
    /\ entry_orders = <<>>
    /\ target_orders = <<>>
    /\ stop_order = <<>>
    /\ result = <<>>

\* the arguments the sizing functions are called with: a balance, the default
\* size, the risk percentage, an entry price and a stop.  A price may be
\* missing (None), zero or negative
SizePrices == Prices \cup {None, 0, -2}
SizeBalances == {-100, 0, 50, 1000}
SizeArgs ==
    [balance : SizeBalances, default_size : {DefaultPositionSize},
     risk_percentage : {RiskPercentage, 10},
     entry_price : SizePrices, stop_loss : SizePrices]

SizeIdle ==
    /\ zpc = "off"
    /\ size_args = [balance |-> 0, default_size |-> DefaultPositionSize,
                    risk_percentage |-> RiskPercentage,
                    entry_price |-> None, stop_loss |-> None]
    /\ backtest_size = <<>>
    /\ manager_size = <<>>

\* a recorded trade as _calculate_metrics reads it: its pnl; np says that the
\* pnl is a numpy float64 (a timeout exit at a close price of the DataFrame)
MetricTrades ==
    [pnl : {R(-100), R(-50), Zero, R(25), R(30), R(36), R(50), R(100)},
     np : BOOLEAN, exit_time : {1}]
MetricBalances == {-100, 0, 100, 125}

\* the balance and the equity curve run_backtest has after these trades
RECURSIVE RecordAll(_, _, _)
RecordAll(init, trades, n) ==
    IF n = 0 THEN Snapshot(<<>>, R(init), <<>>)
    ELSE LET s == RecordAll(init, trades, n - 1)
         IN  RecordTrade(s.trade_history, s.balance, s.equity_curve, <<trades[n]>>)

MetricArgs(init, trades) ==
    LET s == RecordAll(init, trades, Len(trades))
    IN  [initial_balance |-> init, final_balance |-> s.balance,
         trade_history |-> s.trade_history, equity_curve |-> s.equity_curve]

MetricsIdle ==
    /\ mpc = "off"
    /\ metric_args = MetricArgs(0, <<>>)
    /\ computed_metrics = <<>>

(***************************************************************************)
(* TelegramSignalParser.  A text is [str, tokens]: str says that it is a   *)
(* string, tokens are its words, joined by single blanks.  A colon, a      *)
(* dash, a dot and a comma are words of their own; a number is a word of   *)
(* digits.  No word of a modelled text glues an "x" to digits, so the      *)
(* leverage patterns of lines 38-39 match none of them.                    *)
(***************************************************************************)
\* what float() and int() make of a word of digits
NumberValue ==
    ("0" :> 0) @@ ("1" :> 1) @@ ("2" :> 2) @@ ("3" :> 3) @@ ("4" :> 4) @@
    ("5" :> 5) @@ ("6" :> 6) @@ ("20" :> 20) @@ ("100" :> 100) @@
    ("150" :> 150) @@ ("1000000" :> 1000000)

\* the word matches \d+
IsNumber(word) == word \in DOMAIN NumberValue

\* the word matches [0-9,.]+
IsNumeric(word) == IsNumber(word) \/ word = "."

\* float(word): <<the value>>, or <<>> for a ValueError
ParseFloat(word) == IF IsNumber(word) THEN <<R(NumberValue[word])>> ELSE <<>>

\* str.upper() on the words of the modelled texts
UpperCase ==
    ("Entry" :> "ENTRY") @@ ("Targets" :> "TARGETS") @@ ("Leverage" :> "LEVERAGE") @@
    ("Long" :> "LONG") @@ ("#btc" :> "#BTC")

\* the words re.sub(r'[^\w\s#$/.:-]', ' ', text) blanks out
Removed == {",", "!"}

\* lines 121-124
clean_text(words) ==
    LET kept == SelectSeq(words, LAMBDA w : w \notin Removed)
    IN  [k \in 1 .. Len(kept) |->
            IF kept[k] \in DOMAIN UpperCase THEN UpperCase[kept[k]] ELSE kept[k]]

\* the words of label stand at position i of the text
LabelAt(text, i, label) ==
    /\ i + Len(label) - 1 <= Len(text)
    /\ \A j \in 1 .. Len(label) : text[i + j - 1] = label[j]

\* [:\s]* from position i on: the position of the first word that is no colon
RECURSIVE SkipColons(_, _)
SkipColons(text, i) ==
    IF i <= Len(text) /\ text[i] = ":" THEN SkipColons(text, i + 1) ELSE i

\* the positions at which a label is followed by a word of the set accepted
LabelledPositions(text, label, accepted) ==
    {i \in 1 .. Len(text) :
        /\ LabelAt(text, i, label)
        /\ LET j == SkipColons(text, i + Len(label))
           IN  j <= Len(text) /\ text[j] \in accepted}

\* the word re.search captures for label[:\s]*(number): <<>> or <<the word>>
SearchLabelled(text, label, accepted) ==
    LET at == LabelledPositions(text, label, accepted)
    IN  IF at = {} THEN <<>>
        ELSE LET i == CHOOSE i \in at : \A k \in at : i <= k
             IN  <<text[SkipColons(text, i + Len(label))]>>

Min2(a, b) == IF a < b THEN a ELSE b

\* xs[:n]
Take(xs, n) == SubSeq(xs, 1, Min2(n, Len(xs)))

\* sorted(list(set(xs)))
RECURSIVE SortedSeq(_)
SortedSeq(S) ==
    IF S = {} THEN <<>>
    ELSE LET m == CHOOSE x \in S : \A y \in S : RLe(x, y)
         IN  <<m>> \o SortedSeq(S \ {m})

Elements(xs) == {xs[k] : k \in 1 .. Len(xs)}

RECURSIVE Concat(_)
Concat(xss) == IF xss = <<>> THEN <<>> ELSE xss[1] \o Concat(Tail(xss))

\* lines 16-25 and 126-135: of the modelled words only "#BTC" holds a coin
CoinOf == ("#BTC" :> "BTC")

extract_coin(text) ==
    LET found == SelectSeq(text, LAMBDA w : w \in DOMAIN CoinOf)
    IN  IF found = <<>> THEN <<>> ELSE <<CoinOf[found[1]]>>

\* lines 27-33 and 137-143: a side after a Position, Direction or Type label
\* first, else the first LONG or SHORT
IsSide(word) == word \in {LONG, SHORT}

extract_position_type(text) ==
    LET labelled == Concat([k \in 1 .. 3 |->
                        SearchLabelled(text, <<(<<"POSITION", "DIRECTION", "TYPE">>)[k]>>,
                                       {LONG, SHORT})])
        sides == SelectSeq(text, IsSide)
    IN  IF labelled # <<>> THEN <<labelled[1]>>
        ELSE IF sides # <<>> THEN <<sides[1]>>
        ELSE <<>>

\* lines 35-41: the labels of the leverage patterns that can match
LeverageLabels == << <<"LEVERAGE">>, <<"CROSS">>, <<"LEV">> >>

\* line 152
Clamp(leverage) ==
    LET low == IF leverage > 1 THEN leverage ELSE 1
    IN  IF low < 100 THEN low ELSE 100

\* lines 145-155
extract_leverage(text) ==
    LET found == Concat([k \in 1 .. Len(LeverageLabels) |->
                     SearchLabelled(text, LeverageLabels[k], DOMAIN NumberValue)])
    IN  IF found # <<>> THEN Clamp(NumberValue[found[1]]) ELSE 1

\* lines 43-49
EntryLabels ==
    << <<"ENTRY">>, <<"ENTRY", "ZONE">>, <<"BUY">>, <<"ENTER">>, <<"PRICE">> >>

\* the words [0-9,.]+(?:\s*-\s*[0-9,.]+)? captures from position j on
EntryGroup(text, j) ==
    IF j + 2 <= Len(text) /\ text[j + 1] = "-" /\ IsNumeric(text[j + 2])
    THEN <<text[j], "-", text[j + 2]>>
    ELSE <<text[j]>>

\* re.findall for one entry pattern: the captured groups, in text order
RECURSIVE EntryMatchesFrom(_, _, _)
EntryMatchesFrom(text, label, i) ==
    IF i > Len(text) THEN <<>>
    ELSE IF i \in LabelledPositions(text, label, DOMAIN NumberValue \cup {"."})
    THEN <<EntryGroup(text, SkipColons(text, i + Len(label)))>> \o
         EntryMatchesFrom(text, label, i + 1)
    ELSE EntryMatchesFrom(text, label, i + 1)

\* faulty variant: a range gives its two ends only
EntryValuesEnds(match) ==
    IF \E k \in 1 .. Len(match) : ParseFloat(match[k]) = <<>> /\ match[k] # "-"
    THEN <<>>
    ELSE IF Len(match) = 3 THEN ParseFloat(match[1]) \o ParseFloat(match[3])
    ELSE ParseFloat(match[1])

\* lines 165-182: what one match adds to entries
EntryValues(match) ==
    IF Len(match) = 3
    THEN IF ParseFloat(match[1]) = <<>> \/ ParseFloat(match[3]) = <<>> THEN <<>>
         ELSE LET start == ParseFloat(match[1])[1]
                  end == ParseFloat(match[3])[1]
                  pace == RDiv(RSub(end, start), R(2))
              IN  <<start, RAdd(start, pace), end>>
    ELSE ParseFloat(match[1])

\* lines 159-182: entries before the duplicates are removed
PooledEntries(text) ==
    Concat([p \in 1 .. Len(EntryLabels) |->
        LET matches == EntryMatchesFrom(text, EntryLabels[p], 1)
        IN  Concat([k \in 1 .. Len(matches) |-> EntryValues(matches[k])])])

\* lines 189-196: every number of the text within (0.000001, 1000000)
NumbersOfText(text) ==
    LET numbers == SelectSeq(text, IsNumber)
        vals == [k \in 1 .. Len(numbers) |-> R(NumberValue[numbers[k]])]
    \* 1 / 1000000 < v and v < 1000000, without the products
    IN  SelectSeq(vals, LAMBDA v : v[2] \div 1000000 < v[1] /\ v[1] \div 1000000 < v[2])

\* lines 157-198
extract_entry_zones(text) ==
    LET entries == SortedSeq(Elements(PooledEntries(text)))
    IN  Take(IF entries = <<>> THEN NumbersOfText(text) ELSE entries, 5)

\* lines 51-56: each pattern with and without its optional "s"
TargetLabels ==
    << {<<"TARGET">>, <<"TARGETS">>}, {<<"TP">>, <<"TPS">>},
       {<<"TAKE", "PROFIT">>, <<"TAKE", "PROFITS">>}, {<<"SELL">>} >>

\* the word matches [0-9,.\s-]+
InTargetGroup(word) == IsNumeric(word) \/ word = "-"

\* the words of the group ([0-9,.\s-]+) from position j on
RECURSIVE TargetGroup(_, _)
TargetGroup(text, j) ==
    IF j <= Len(text) /\ InTargetGroup(text[j])
    THEN <<text[j]>> \o TargetGroup(text, j + 1)
    ELSE <<>>

\* re.search for one target pattern: the group of the first match.  The
\* group takes the blank after the label when nothing else follows, so the
\* first label that is not the last word of the text is the match.
TargetMatch(text, labels) ==
    LET at == {i \in 1 .. Len(text) :
                  \E label \in labels :
                      LabelAt(text, i, label) /\ i + Len(label) <= Len(text)}
    IN  IF at = {} THEN <<>>
        ELSE LET i == CHOOSE i \in at : \A k \in at : i <= k
                 label == CHOOSE label \in labels :
                              /\ LabelAt(text, i, label)
                              /\ \A other \in labels :
                                    LabelAt(text, i, other) => Len(other) <= Len(label)
             IN  <<TargetGroup(text, SkipColons(text, i + Len(label)))>>

\* lines 209-216: what one match adds to targets
TargetValues(group) ==
    LET numbers == SelectSeq(group, IsNumber)
        vals == [k \in 1 .. Len(numbers) |-> R(NumberValue[numbers[k]])]
    IN  SelectSeq(vals, LAMBDA v : RLt(Zero, v))

\* lines 202-216: targets before the duplicates are removed
PooledTargets(text) ==
    Concat([p \in 1 .. Len(TargetLabels) |->
        LET match == TargetMatch(text, TargetLabels[p])
        IN  IF match = <<>> THEN <<>> ELSE TargetValues(match[1])])

\* lines 200-220
extract_targets(text) == Take(SortedSeq(Elements(PooledTargets(text))), 5)

\* lines 58-63
StopLabels == << <<"STOP", "LOSS">>, <<"SL">>, <<"STOP">>, <<"LOSS">> >>

\* lines 222-232: <<>> is None
extract_stop_loss(text) ==
    LET found == Concat([k \in 1 .. Len(StopLabels) |->
                     LET word == SearchLabelled(text, StopLabels[k], DOMAIN NumberValue \cup {"."})
                     IN  IF word = <<>> THEN <<>> ELSE ParseFloat(word[1])])
    IN  IF found = <<>> THEN <<>> ELSE <<found[1]>>

\* lines 234-245
detect_cross_leverage(text) == \E k \in 1 .. Len(text) : text[k] = "CROSS"

\* lines 247-260
validate_signal(coin, side, entries) ==
    (IF coin = <<>> THEN <<"No coin symbol found">> ELSE <<>>) \o
    (IF side = <<>> THEN <<"No position type (LONG/SHORT) found">> ELSE <<>>) \o
    (IF entries = <<>> THEN <<"No entry zones found">> ELSE <<>>)

\* the message of line 114, without the text of the exception
ParsingFailed == "Parsing failed"

\* lines 112-116
FailedIntent(text) ==
    [raw_text |-> text, parse_errors |-> <<ParsingFailed>>,
     parsed_successfully |-> FALSE]

\* lines 75-116.  re.sub raises a TypeError for a text that is no string.
parse_signal(text) ==
    IF ~text.str THEN FailedIntent(text)
    ELSE LET cleaned_text == clean_text(text.tokens)
             coin == extract_coin(cleaned_text)
             side == extract_position_type(cleaned_text)
             entries == extract_entry_zones(cleaned_text)
             errors == validate_signal(coin, side, entries)
         IN  [raw_text |-> text,
              coin |-> coin,
              pair |-> "USDT",
              position_type |-> side,
              entry_zones |-> entries,
              leverage |-> extract_leverage(cleaned_text),
              cross_leverage |-> detect_cross_leverage(cleaned_text),
              targets |-> extract_targets(cleaned_text),
              stop_loss |-> extract_stop_loss(cleaned_text),
              parse_errors |-> errors,
              parsed_successfully |-> Len(errors) = 0]

\* faulty variant: the loop ends at the first text whose parsing failed
RECURSIVE batch_parse_signals_aborting(_)
batch_parse_signals_aborting(batch) ==
    IF batch = <<>> THEN <<>>
    ELSE IF ~batch[1].str THEN <<>>
    ELSE <<parse_signal(batch[1])>> \o batch_parse_signals_aborting(Tail(batch))

\* lines 262-270
batch_parse_signals(batch) ==
    [k \in 1 .. Len(batch) |-> parse_signal(batch[k])]

\* a text that is no string (None)
NotText == [str |-> FALSE, tokens |-> <<>>]

Text(words) == [str |-> TRUE, tokens |-> words]

\* the texts parsed one at a time: a head, then words about the entry, the
\* leverage, the targets and the stop
Heads == {<<>>, <<"#btc">>, <<"#BTC", "Long">>}

EntryWords ==
    {<<>>,
     <<"Entry", ":", "1", "-", "3">>,
     <<"Entry", "1", "-", "2">>,
     <<"Entry", "3", "BUY", "2", "Entry", "3">>,
     <<"Entry", "1", "-", "3", "BUY", "2">>,
     <<"Entry", "1", "-", "3", "BUY", "4", "-", "6">>,
     <<"Entry", "2", "-", ".">>,
     <<"Entry", "3", "-", "1">>,
     <<"Entry", "1", ",", "2">>,
     <<"3", "1", "3">>,
     <<"1000000", "0", "2">>,
     <<"6", "5", "4", "3", "2", "1">>}

LeverageWords ==
    {<<>>,
     <<"Leverage", ":", "5">>,
     <<"Leverage", "0">>,
     <<"Leverage", "150">>,
     <<"Leverage", "CROSS", "20">>,
     <<"Leverage", ".">>,
     <<"LEV", "100">>}

TargetWords ==
    {<<>>,
     <<"Targets", ":", "3", "2", "2">>,
     <<"Targets", "1", "-", "3">>,
     <<"TP", "1", "2", "3", "Targets", "4", "5", "6">>,
     <<"Targets", "SL", "1", "Targets", "5">>,
     <<"TP", "0", "2", "!">>}

StopWords == {<<>>, <<"SL", "1">>, <<"STOP", "LOSS", ".", "SL", "2">>}

Texts ==
    {NotText} \cup
    {Text(h \o e \o l \o t \o s) :
        h \in Heads, e \in EntryWords, l \in LeverageWords,
        t \in TargetWords, s \in StopWords}

\* the texts of a batch
BatchTexts ==
    {NotText,
     Text(<<"#BTC", "Long", "Entry", "1", "-", "3", "Leverage", "5">>),
     Text(<<"Long", "3", "1">>)}

(***************************************************************************)
(* The inputs of the simulation specification.                             *)
(***************************************************************************)
\* signals that reach line 125: a coin, a position type, entry zones.  The
\* leverage is one the parser can produce
SimSignals ==
    [is_dict : {TRUE}, coin : {"BTC"}, has_position_type : {TRUE},
     position_type : {LONG, SHORT},
     entry_zones : {<<2>>, <<MaxPrice, 1>>}, targets : {<<>>, <<MaxPrice>>},
     stop_loss : {None, 2}, leverage : {1, 10}]

SimSettings == [default_position_size : {DefaultPositionSize}, risk_percentage : {RiskPercentage, 10}]

SimBalances == {0, 50, 1000}

SimulateIdle ==
    /\ tpc = "off"
    /\ sim_settings = [default_position_size |-> DefaultPositionSize,
                       risk_percentage |-> RiskPercentage]
    /\ sim_idx = 0
    /\ sim_balance = Zero
    /\ sim_history = <<>>
    /\ sim_curve = <<>>
    /\ sim_args = <<>>

ParseIdle ==
    /\ ppc = "off"
    /\ texts = <<>>
    /\ intents = <<>>

SearchIdle ==
    /\ spc = "off"
    /\ data = <<>>
    /\ entry_zones = <<>>
    /\ position_type = LONG
    /\ targets = <<>>
    /\ stop_loss = None
    /\ entry = [price |-> None, time |-> None]
    /\ exit = [price |-> None, time |-> None, reason |-> NoReason]

RunIdle ==
    /\ rpc = "off"
    /\ initial_balance = 0
    /\ settings = [default_position_size |-> DefaultPositionSize,
                   risk_percentage |-> RiskPercentage]
    /\ signals = <<>>
    /\ idx = 0
    /\ balance = Zero
    /\ trade_history = <<>>
    /\ equity_curve = <<>>
    /\ signal = NotADict
    /\ response = NoResponse
    /\ trade_result = NoTrade
    /\ branch = "none"
    /\ returned_at = "not_called"
    /\ before = Snapshot(trade_history, balance, equity_curve)
    /\ report = <<>>

\* lines 44-48
Init ==
    /\ rpc = "loop"
    /\ initial_balance \in InitialBalances
    /\ settings = [default_position_size |-> DefaultPositionSize,
                   risk_percentage |-> RiskPercentage]
    /\ signals \in SeqsBetween(RunSignals, 0, MaxSignals)
    /\ idx = 0
    /\ balance = R(initial_balance)
    /\ trade_history = <<>>
    /\ equity_curve = <<>>
    /\ signal = NotADict
    /\ response = NoResponse
    /\ trade_result = NoTrade
    /\ branch = "none"
    /\ returned_at = "not_called"
    /\ before = Snapshot(trade_history, balance, equity_curve)
    /\ report = <<>>
    /\ SearchIdle
    /\ ExecIdle
    /\ SizeIdle
    /\ MetricsIdle
    /\ ParseIdle
    /\ SimulateIdle

\* one iteration of the for loop, lines 53-78
ProcessSignal ==
    /\ rpc = "loop"
    /\ idx < Len(signals)
    /\ idx' = idx + 1
    /\ signal' = signals[idx + 1]
    /\ branch' = LoopBranch(signals[idx + 1])
    /\ \E resp \in ResponsesTo(signals[idx + 1]) :
        LET called == LoopBranch(signals[idx + 1]) = "simulated"
            sim == simulate_trade(signals[idx + 1], settings, balance, resp)
            outcome == IF called THEN sim.trade ELSE trade_result
            after == IF called
                     THEN RecordTrade(trade_history, balance, equity_curve, outcome)
                     ELSE Snapshot(trade_history, balance, equity_curve)
        IN  /\ response' = resp
            /\ returned_at' = IF called THEN sim.at ELSE "not_called"
            /\ before' = Snapshot(trade_history, balance, equity_curve)
            /\ trade_result' = outcome
            /\ trade_history' = after.trade_history
            /\ balance' = after.balance
            /\ equity_curve' = after.equity_curve
    /\ rpc' = AfterIteration(LoopBranch(signals[idx + 1]))
    /\ UNCHANGED <<initial_balance, settings, signals, report>>
    /\ UNCHANGED <<searchVars, execVars, sizeVars, metricVars, parseVars, simVars>>

\* after the loop: lines 80-103
Finish ==
    /\ rpc = "loop"
    /\ idx = Len(signals)
    /\ LET out == ReturnValue(initial_balance, balance, trade_history, equity_curve) IN
        /\ rpc' = IF out.raised THEN "raised" ELSE "returned"
        /\ report' = out.report
    /\ UNCHANGED <<initial_balance, settings, signals, idx, balance, trade_history,
                   equity_curve, signal, response, trade_result, branch,
                   returned_at, before>>
    /\ UNCHANGED <<searchVars, execVars, sizeVars, metricVars, parseVars, simVars>>

Next == ProcessSignal \/ Finish

Spec == Init /\ [][Next]_vars

(***************************************************************************)
(* SpecSearch: _find_entry_point is called on a candle series, and         *)
(* _find_exit_point with the entry time it found (_simulate_trade, lines   *)
(* 132-143).                                                               *)
(***************************************************************************)
SearchInit ==
    /\ spc = "entry_call"
    /\ data \in SeriesUpTo(MaxCandles)
    /\ entry_zones \in SeqsBetween(Prices, 0, MaxZones)
    /\ position_type \in {LONG, SHORT}
    /\ targets = <<>>
    /\ stop_loss = None
    /\ entry = [price |-> None, time |-> None]
    /\ exit = [price |-> None, time |-> None, reason |-> NoReason]
    /\ RunIdle
    /\ ExecIdle
    /\ SizeIdle
    /\ MetricsIdle
    /\ ParseIdle
    /\ SimulateIdle

FindEntry ==
    /\ spc = "entry_call"
    /\ entry' = find_entry_point(data, entry_zones, position_type)
    /\ spc' = "entry_done"
    /\ UNCHANGED <<data, entry_zones, position_type, targets, stop_loss, exit>>
    /\ UNCHANGED <<runVars, execVars, sizeVars, metricVars, parseVars, simVars>>

FindExit ==
    /\ spc = "entry_done"
    /\ Truthy(entry.price)
    /\ \E t \in SeqsBetween(Prices, 0, MaxTargets), s \in Prices \cup {None} :
        /\ targets' = t
        /\ stop_loss' = s
        /\ exit' = find_exit_point(data, entry.time, t, s, position_type)
    /\ spc' = "exit_done"
    /\ UNCHANGED <<data, entry_zones, position_type, entry>>
    /\ UNCHANGED <<runVars, execVars, sizeVars, metricVars, parseVars, simVars>>

SearchNext == FindEntry \/ FindExit

SpecSearch == SearchInit /\ [][SearchNext]_vars

(***************************************************************************)
(* SpecExec: execute_signal, one gateway call at a time.  Every request    *)
(* may succeed or fail.                                                    *)
(***************************************************************************)
ExecInit ==
    /\ epc = "set_leverage"
    /\ signal_data \in ExecSignals
    /\ exec_settings \in ExecSettings
    /\ position_size = Zero
    /\ step = 0
    /\ calls = <<>>
    /\ entry_orders = <<>>
    /\ target_orders = <<>>
    /\ stop_order = <<>>
    /\ result = <<>>
    /\ RunIdle
    /\ SearchIdle
    /\ SizeIdle
    /\ MetricsIdle
    /\ ParseIdle
    /\ SimulateIdle

\* faulty variant: the target ladder and the stop order are skipped when no
\* entry order was placed
AdvanceAfterEntry(stage, size, eo, to, so) ==
    LET ns == IF eo = <<>> THEN "done"
              ELSE StageAfter(stage, signal_data, exec_settings) IN
    /\ epc' = ns
    /\ step' = 0
    /\ result' = IF ns = "done"
                 THEN <<ExecSuccess(signal_data, size, eo, to, so)>>
                 ELSE result

\* the stage after `stage`, and the returned dict once that is the return
Advance(stage, size, eo, to, so) ==
    LET ns == StageAfter(stage, signal_data, exec_settings) IN
    /\ epc' = ns
    /\ step' = 0
    /\ result' = IF ns = "done"
                 THEN <<ExecSuccess(signal_data, size, eo, to, so)>>
                 ELSE result

\* faulty variant: a failed set_leverage request is sent a second time
SetLeverageRetrying ==
    /\ epc = "set_leverage"
    /\ IF ~signal_data.has_keys
       THEN /\ epc' = "done"
            /\ result' = <<ExecFailure(signal_data, "KeyError")>>
            /\ UNCHANGED <<position_size, step, calls>>
       ELSE \E ok \in BOOLEAN, again \in BOOLEAN :
            LET size == manager_calculate_position_size(
                            exec_settings.default_position_size,
                            exec_settings.risk_percentage,
                            IF signal_data.entry_zones # <<>>
                            THEN signal_data.entry_zones[1] ELSE 0,
                            signal_data.stop_loss)
            IN  /\ calls' = IF ok THEN Append(calls, LeverageCall(signal_data, ok))
                            ELSE <<LeverageCall(signal_data, FALSE),
                                   LeverageCall(signal_data, again)>>
                /\ IF ok \/ again
                   THEN /\ position_size' = size
                        /\ Advance("set_leverage", size, entry_orders, target_orders, stop_order)
                   ELSE /\ epc' = "done"
                        /\ result' = <<ExecFailure(signal_data, "request failed")>>
                        /\ UNCHANGED <<position_size, step>>
    /\ UNCHANGED <<signal_data, exec_settings, entry_orders, target_orders, stop_order>>
    /\ UNCHANGED <<runVars, searchVars, sizeVars, metricVars, parseVars, simVars>>

\* lines 254-271: read the signal, set the leverage, compute the size
SetLeverage ==
    /\ epc = "set_leverage"
    /\ IF ~signal_data.has_keys
       THEN /\ epc' = "done"
            /\ result' = <<ExecFailure(signal_data, "KeyError")>>
            /\ UNCHANGED <<position_size, step, calls>>
       ELSE \E ok \in BOOLEAN :
            LET size == manager_calculate_position_size(
                            exec_settings.default_position_size,
                            exec_settings.risk_percentage,
                            IF signal_data.entry_zones # <<>>
                            THEN signal_data.entry_zones[1] ELSE 0,
                            signal_data.stop_loss)
            IN  /\ calls' = Append(calls, LeverageCall(signal_data, ok))
                /\ IF ok
                   THEN /\ position_size' = size
                        /\ Advance("set_leverage", size, entry_orders, target_orders, stop_order)
                   ELSE /\ epc' = "done"
                        /\ result' = <<ExecFailure(signal_data, "request failed")>>
                        /\ UNCHANGED <<position_size, step>>
    /\ UNCHANGED <<signal_data, exec_settings, entry_orders, target_orders, stop_order>>
    /\ UNCHANGED <<runVars, searchVars, sizeVars, metricVars, parseVars, simVars>>

\* faulty variant: the place_order of an entry step is not guarded, so its
\* failure ends execute_signal in the handler of line 300
PlaceEntryOrderUnguarded ==
    /\ epc = "entries"
    /\ \E ok \in BOOLEAN :
        LET order == EntryOrder(signal_data, exec_settings, position_size, step + 1, ok)
            orders == IF ok THEN Append(entry_orders, order) ELSE entry_orders
        IN  /\ calls' = Append(calls, order)
            /\ entry_orders' = orders
            /\ IF ~ok
               THEN /\ epc' = "done"
                    /\ result' = <<ExecFailure(signal_data, "request failed")>>
                    /\ UNCHANGED step
               ELSE IF step + 1 < EntrySteps(signal_data, exec_settings)
               THEN /\ step' = step + 1
                    /\ UNCHANGED <<epc, result>>
               ELSE Advance("entries", position_size, orders, target_orders, stop_order)
    /\ UNCHANGED <<signal_data, exec_settings, position_size, target_orders, stop_order>>
    /\ UNCHANGED <<runVars, searchVars, sizeVars, metricVars, parseVars, simVars>>

\* one iteration of the loop of _place_entry_orders, lines 334-350
PlaceEntryOrder ==
    /\ epc = "entries"
    /\ \E ok \in BOOLEAN :
        LET order == EntryOrder(signal_data, exec_settings, position_size, step + 1, ok)
            orders == IF ok THEN Append(entry_orders, order) ELSE entry_orders
        IN  /\ calls' = Append(calls, order)
            /\ entry_orders' = orders
            /\ IF step + 1 < EntrySteps(signal_data, exec_settings)
               THEN /\ step' = step + 1
                    /\ UNCHANGED <<epc, result>>
               ELSE Advance("entries", position_size, orders, target_orders, stop_order)
    /\ UNCHANGED <<signal_data, exec_settings, position_size, target_orders, stop_order>>
    /\ UNCHANGED <<runVars, searchVars, sizeVars, metricVars, parseVars, simVars>>

\* one iteration of the loop of _place_target_orders, lines 366-383
PlaceTargetOrder ==
    /\ epc = "targets"
    /\ \E ok \in BOOLEAN :
        LET order == TargetOrder(signal_data, exec_settings, position_size, step + 1, ok)
            orders == IF ok THEN Append(target_orders, order) ELSE target_orders
        IN  /\ calls' = Append(calls, order)
            /\ target_orders' = orders
            /\ IF step + 1 < TargetSteps(signal_data, exec_settings)
               THEN /\ step' = step + 1
                    /\ UNCHANGED <<epc, result>>
               ELSE Advance("targets", position_size, entry_orders, orders, stop_order)
    /\ UNCHANGED <<signal_data, exec_settings, position_size, entry_orders, stop_order>>
    /\ UNCHANGED <<runVars, searchVars, sizeVars, metricVars, parseVars, simVars>>

\* _place_stop_loss_order, lines 393-408
PlaceStopOrder ==
    /\ epc = "stop"
    /\ \E ok \in BOOLEAN :
        LET order == StopOrder(signal_data, position_size, ok)
            placed == IF ok THEN <<order>> ELSE <<>>
        IN  /\ calls' = Append(calls, order)
            /\ stop_order' = placed
            /\ Advance("stop", position_size, entry_orders, target_orders, placed)
    /\ UNCHANGED <<signal_data, exec_settings, position_size, entry_orders, target_orders>>
    /\ UNCHANGED <<runVars, searchVars, sizeVars, metricVars, parseVars, simVars>>

ExecNext == SetLeverage \/ PlaceEntryOrder \/ PlaceTargetOrder \/ PlaceStopOrder

SpecExec == ExecInit /\ [][ExecNext]_vars

(***************************************************************************)
(* SpecSize: both sizing functions are called on the same arguments.       *)
(***************************************************************************)
SizeInit ==
    /\ zpc = "call"
    /\ size_args \in SizeArgs
    /\ backtest_size = <<>>
    /\ manager_size = <<>>
    /\ RunIdle
    /\ SearchIdle
    /\ ExecIdle
    /\ MetricsIdle
    /\ ParseIdle
    /\ SimulateIdle

\* BacktestEngine._calculate_position_size
BacktestCalculatePositionSize ==
    /\ zpc = "call"
    /\ backtest_size = <<>>
    /\ backtest_size' =
          <<calculate_position_size(R(size_args.balance), size_args.default_size,
                size_args.risk_percentage, size_args.entry_price, size_args.stop_loss)>>
    /\ UNCHANGED <<zpc, size_args, manager_size>>
    /\ UNCHANGED <<runVars, searchVars, execVars, metricVars, parseVars, simVars>>

\* BitunixTradeManager._calculate_position_size: it is not given the balance
ManagerCalculatePositionSize ==
    /\ zpc = "call"
    /\ manager_size = <<>>
    /\ manager_size' =
          <<manager_calculate_position_size(size_args.default_size,
                size_args.risk_percentage, size_args.entry_price, size_args.stop_loss)>>
    /\ UNCHANGED <<zpc, size_args, backtest_size>>
    /\ UNCHANGED <<runVars, searchVars, execVars, metricVars, parseVars, simVars>>

SizeNext == BacktestCalculatePositionSize \/ ManagerCalculatePositionSize

SpecSize == SizeInit /\ [][SizeNext]_vars

(***************************************************************************)
(* SpecMetrics: _calculate_metrics is called as run_backtest calls it      *)
(* (lines 81-83), on a trade list of up to MaxTrades trades and the equity *)
(* curve recorded for it.                                                  *)
(***************************************************************************)
MetricsInit ==
    /\ mpc = "call"
    /\ \E init \in MetricBalances, trades \in SeqsBetween(MetricTrades, 0, MaxTrades) :
          metric_args = MetricArgs(init, trades)
    /\ computed_metrics = <<>>
    /\ RunIdle
    /\ SearchIdle
    /\ ExecIdle
    /\ SizeIdle
    /\ ParseIdle
    /\ SimulateIdle

CalculateMetrics ==
    /\ mpc = "call"
    /\ computed_metrics' =
          <<calculate_metrics(metric_args.trade_history, metric_args.initial_balance,
                              metric_args.final_balance, metric_args.equity_curve)>>
    /\ mpc' = "done"
    /\ UNCHANGED metric_args
    /\ UNCHANGED <<runVars, searchVars, execVars, sizeVars, parseVars, simVars>>

MetricsNext == CalculateMetrics

SpecMetrics == MetricsInit /\ [][MetricsNext]_vars

(***************************************************************************)
(* SpecParse: parse_signal is called on one text, and batch_parse_signals  *)
(* on a list of up to MaxBatch texts.                                      *)
(***************************************************************************)
ParseInit ==
    /\ ppc = "call"
    /\ texts \in {<<t>> : t \in Texts} \cup SeqsBetween(BatchTexts, 0, MaxBatch)
    /\ intents = <<>>
    /\ RunIdle
    /\ SearchIdle
    /\ ExecIdle
    /\ SizeIdle
    /\ MetricsIdle
    /\ SimulateIdle

ParseSignal ==
    /\ ppc = "call"
    /\ Len(texts) = 1
    /\ intents' = <<parse_signal(texts[1])>>
    /\ ppc' = "parsed"
    /\ UNCHANGED texts
    /\ UNCHANGED <<runVars, searchVars, execVars, sizeVars, metricVars, simVars>>

BatchParseSignals ==
    /\ ppc = "call"
    /\ intents' = batch_parse_signals(texts)
    /\ ppc' = "batch"
    /\ UNCHANGED texts
    /\ UNCHANGED <<runVars, searchVars, execVars, sizeVars, metricVars, simVars>>

ParseNext == ParseSignal \/ BatchParseSignals

SpecParse == ParseInit /\ [][ParseNext]_vars

(***************************************************************************)
(* SpecSimulate: the loop of run_backtest (lines 53-72) on up to           *)
(* MaxSignals signals, each simulated by lines 125-172 of _simulate_trade  *)
(* on a candle series, that is from the point where historical_data has    *)
(* passed the test of line 122.                                            *)
(***************************************************************************)
SimulateInit ==
    /\ tpc = "loop"
    /\ sim_settings \in SimSettings
    /\ sim_idx = 0
    /\ sim_balance \in {R(b) : b \in SimBalances}
    /\ sim_history = <<>>
    /\ sim_curve = <<>>
    /\ sim_args = <<>>
    /\ RunIdle
    /\ SearchIdle
    /\ ExecIdle
    /\ SizeIdle
    /\ MetricsIdle
    /\ ParseIdle

\* one iteration: lines 59-72 with lines 125-172
SimulateTrade ==
    /\ tpc = "loop"
    /\ sim_idx < MaxSignals
    /\ \E sig \in SimSignals, rows \in RunSeries :
        LET outcome == TradeFromData(sig, sim_settings, sim_balance, rows)
            after == RecordTrade(sim_history, sim_balance, sim_curve, outcome.trade)
        IN  /\ sim_history' = after.trade_history
            /\ sim_balance' = after.balance
            /\ sim_curve' = after.equity_curve
            /\ sim_args' = IF outcome.trade = NoTrade THEN sim_args
                           ELSE Append(sim_args, [signal |-> sig, rows |-> rows,
                                                  balance |-> sim_balance])
    /\ sim_idx' = sim_idx + 1
    /\ UNCHANGED <<tpc, sim_settings>>
    /\ UNCHANGED <<runVars, searchVars, execVars, sizeVars, metricVars, parseVars>>

SimulateNext == SimulateTrade

SpecSimulate == SimulateInit /\ [][SimulateNext]_vars

(***************************************************************************)
(* Claims about run_backtest (Spec).  signal, response, branch,            *)
(* returned_at and before describe the last iteration of the loop.         *)
(***************************************************************************)
RunState == Snapshot(trade_history, balance, equity_curve)

\* no candle the provider returned contains an entry-zone price of the signal
EntryNeverTouched ==
    \A k \in 1 .. Len(response.klines), j \in 1 .. Len(signal.entry_zones) :
        ~(/\ response.klines[k].low <= signal.entry_zones[j]
          /\ signal.entry_zones[j] <= response.klines[k].high)

\* C4: an intent with a coin and a non-empty entry zone is skipped for lack of
\* data only when the provider returned no candles, and whenever the provider
\* returned a non-empty candle series the simulation proceeds to the entry
\* search.
C4_DataLeadsToEntrySearch ==
    (branch = "simulated" /\ signal.has_position_type) =>
        /\ returned_at = "no_data" =>
              (response.status # 200 \/ response.klines = <<>>)
        /\ (response.status = 200 /\ response.klines # <<>>) =>
              returned_at \in {"no_entry", "no_exit", "ZeroDivisionError", "trade"}

\* C5: an intent whose entry prices no candle of the window touches produces
\* no TradeOutcome and no EquityPoint and leaves the running balance
\* unchanged, and the run still completes normally: it returns a report, after
\* the remaining intents were processed.
C5_UntouchedIntentSkippedRunCompletes ==
    (branch = "simulated" /\ EntryNeverTouched) =>
        /\ trade_result = NoTrade
        /\ RunState = before
        /\ rpc # "raised"
        /\ rpc = "returned" => idx = Len(signals)

\* the part of C5 about the skipped intent itself holds: no trade, no equity
\* point, the balance unchanged, and the loop goes on
UntouchedIntentSkipped ==
    (branch = "simulated" /\ EntryNeverTouched) =>
        /\ trade_result = NoTrade
        /\ RunState = before
        /\ idx < Len(signals) => rpc = "loop"

\* initial_balance plus the pnl of the first k recorded trades
PnlThrough(k) ==
    RAdd(R(initial_balance), RSum([i \in 1 .. k |-> trade_history[i].pnl]))

Failed ==
    \/ branch = "except"
    \/ returned_at \in {"KeyError", "ValueError", "ZeroDivisionError"}

\* C7: a failure while simulating one intent is caught and the intent skipped:
\* trade history, equity curve and running balance are as they were before
\* the intent, and every following intent of the list is still processed (the
\* loop goes on, and the run ends only when the whole list was taken).
C7_FailureSkipsIntent ==
    /\ Failed =>
          /\ RunState = before
          /\ idx < Len(signals) => rpc = "loop"
    /\ rpc \in {"returned", "raised"} => idx = Len(signals)

\* the first element of the list was no dict, the second intent's simulation
\* raised on the provider's candles, and the run returned
C7_Witness ==
    /\ rpc = "returned"
    /\ idx = 2
    /\ ~signals[1].is_dict
    /\ returned_at = "ValueError"
    /\ response.klines # <<>>

ZeroFields == {"profit_factor", "gross_profit", "gross_loss", "largest_win", "largest_loss"}

\* C8: when no trade exists the run raises nothing and every field of the
\* report is present and 0: total, winning and losing trades, win rate, max
\* drawdown, Sharpe ratio, profit factor, gross profit, gross loss, largest win
\* and largest loss.
C8_EmptyReportAllZero ==
    (rpc \in {"returned", "raised"} /\ trade_history = <<>>) =>
        /\ rpc = "returned"
        /\ report[1].total_trades = 0
        /\ report[1].winning_trades = 0
        /\ report[1].losing_trades = 0
        /\ report[1].win_rate = Zero
        /\ report[1].max_drawdown = Zero
        /\ report[1].sharpe_ratio = Zero
        /\ ZeroFields \subseteq DOMAIN report[1].metrics
        /\ \A f \in ZeroFields : report[1].metrics[f] = Zero

\* C9: a run never raises, whatever the balance: it returns a report whose
\* numbers are finite.
C9_RunNeverRaises ==
    /\ rpc # "raised"
    /\ rpc = "returned" =>
          /\ Finite(report[1].total_pnl_percentage)
          /\ Finite(report[1].max_drawdown)
          /\ Finite(report[1].sharpe_ratio)

(***************************************************************************)
(* Claims about the two searches (SpecSearch).                             *)
(***************************************************************************)
\* candle k of data contains entry-zone price j
ZoneTouched(k, j) ==
    data[k].low <= entry_zones[j] /\ entry_zones[j] <= data[k].high

TouchedPairs ==
    {p \in (1 .. Len(data)) \X (1 .. Len(entry_zones)) : ZoneTouched(p[1], p[2])}

\* the candles strictly after the entry time
AfterEntry == {k \in 1 .. Len(data) : data[k].timestamp > entry.time}

StopReached(k) ==
    /\ stop_loss # None
    /\ \/ position_type = LONG /\ data[k].low <= stop_loss
       \/ position_type = SHORT /\ data[k].high >= stop_loss

TargetReached(k, j) ==
    \/ position_type = LONG /\ data[k].high >= targets[j]
    \/ position_type = SHORT /\ data[k].low <= targets[j]

ExitCondition(k) ==
    StopReached(k) \/ \E j \in 1 .. Len(targets) : TargetReached(k, j)

\* C1: the exit search looks only at the candles strictly after the entry
\* time, in time order; in each candle the stop is tested first and then the
\* targets in list order; the exit is that of the first satisfied condition,
\* so a candle that reaches both the stop and a target exits with reason
\* stop_loss at the stop price.
C1_StopBeforeTargets ==
    (spc = "exit_done" /\ \E k \in AfterEntry : ExitCondition(k)) =>
        \E k \in AfterEntry :
            /\ ExitCondition(k)
            /\ \A e \in AfterEntry :
                  data[e].timestamp < data[k].timestamp => ~ExitCondition(e)
            /\ exit.time = data[k].timestamp
            /\ IF StopReached(k)
               THEN exit.reason = "stop_loss" /\ exit.price = stop_loss
               ELSE \E j \in 1 .. Len(targets) :
                       /\ TargetReached(k, j)
                       /\ \A i \in 1 .. (j - 1) : ~TargetReached(k, i)
                       /\ exit.reason = "target"
                       /\ exit.price = targets[j]

\* a candle that is not the first after the entry reaches both the stop and a
\* target, and the exit is the stop
C1_Witness ==
    /\ spc = "exit_done"
    /\ exit.reason = "stop_loss"
    /\ exit.time > entry.time + 1
    /\ \E k \in AfterEntry :
          /\ data[k].timestamp = exit.time
          /\ \E j \in 1 .. Len(targets) : TargetReached(k, j)

\* C2: the entry search scans the candles forward in time and, within a
\* candle, the entry-zone prices in list order; the entry is the first
\* (candle, price) pair with low <= price <= high and its time is that
\* candle's timestamp; no later candle and no later list element wins over an
\* earlier satisfying pair.  Without such a pair there is no entry.
C2_FirstPairWins ==
    spc # "entry_call" =>
        IF TouchedPairs = {}
        THEN entry.price = None /\ entry.time = None
        ELSE \E p \in TouchedPairs :
                /\ \A q \in TouchedPairs :
                      q[1] > p[1] \/ (q[1] = p[1] /\ q[2] >= p[2])
                /\ entry.price = entry_zones[p[2]]
                /\ entry.time = data[p[1]].timestamp

\* the entry is the second price of the list in the second candle, although a
\* later candle contains the first price of the list
C2_Witness ==
    /\ spc = "entry_done"
    /\ Len(entry_zones) = 2
    /\ entry_zones[1] # entry_zones[2]
    /\ entry.price = entry_zones[2]
    /\ entry.time = 2
    /\ \E k \in 3 .. Len(data) : ZoneTouched(k, 1)

\* C3 as stated: whenever the entry was found and no candle through the end
\* of the window reaches the stop or a target, the exit is the last candle's
\* close with reason timeout.
C3_TimeoutAlways ==
    (spc = "exit_done" /\ \A k \in AfterEntry : ~ExitCondition(k)) =>
        /\ exit.reason = "timeout"
        /\ exit.price = data[Len(data)].close
        /\ exit.time = data[Len(data)].timestamp

\* C3 as amended: the same, provided at least one candle lies strictly after
\* the entry candle; when the entry candle is the last one, no exit is found
\* (and _simulate_trade records no trade).
C3_TimeoutWhenCandlesFollow ==
    (spc = "exit_done" /\ \A k \in AfterEntry : ~ExitCondition(k)) =>
        IF AfterEntry # {}
        THEN /\ exit.reason = "timeout"
             /\ exit.price = data[Len(data)].close
             /\ exit.time = data[Len(data)].timestamp
        ELSE /\ exit.reason = NoReason
             /\ exit.price = None
             /\ exit.time = None

\* a target is set, two candles follow the entry, none of them reaches it, and
\* the last close differs from the close before it
C3_Witness ==
    /\ spc = "exit_done"
    /\ exit.reason = "timeout"
    /\ targets # <<>>
    /\ Cardinality(AfterEntry) >= 2
    /\ data[Len(data)].close # data[Len(data) - 1].close

(***************************************************************************)
(* Claims about execute_signal (SpecExec).                                 *)
(***************************************************************************)
\* the place of a ladder in the order the claim gives
LadderRank(ladder) ==
    CASE ladder = "leverage" -> 0
      [] ladder = "entry" -> 1
      [] ladder = "target" -> 2
      [] OTHER -> 3

\* the gateway calls made for a ladder so far
CallsOf(ladder) == {k \in 1 .. Len(calls) : calls[k].ladder = ladder}

\* C10: the leverage/margin mode is set on the gateway before any order is
\* placed; then the entry orders are placed in entry-zone order, then the
\* target orders in target order, then the stop order; each order is one
\* gateway call of its own, and no order of a later group is placed before an
\* order of an earlier group.
C10_ExecutionOrder ==
    /\ calls # <<>> =>
          /\ calls[1].api = "set_leverage"
          /\ Len(calls) > 1 => calls[1].ok
    /\ \A a, b \in 1 .. Len(calls) :
          a < b =>
              /\ LadderRank(calls[a].ladder) <= LadderRank(calls[b].ladder)
              /\ calls[a].ladder = calls[b].ladder => calls[a].rung < calls[b].rung
    /\ \A k \in CallsOf("entry") :
          /\ calls[k].api = "place_order"
          /\ calls[k].price = signal_data.entry_zones[calls[k].rung]
    /\ \A k \in CallsOf("target") :
          /\ calls[k].api = "place_order"
          /\ calls[k].price = signal_data.targets[calls[k].rung]
    /\ \A k \in CallsOf("stop") :
          /\ calls[k].api = "place_order"
          /\ calls[k].price = signal_data.stop_loss
    /\ (epc = "done" /\ result[1].success) =>
          /\ Cardinality(CallsOf("entry")) = EntrySteps(signal_data, exec_settings)
          /\ Cardinality(CallsOf("target")) = TargetSteps(signal_data, exec_settings)
          /\ Cardinality(CallsOf("stop")) = IF Truthy(signal_data.stop_loss) THEN 1 ELSE 0

\* execute_signal returned after it placed two entry orders at different
\* prices, two target orders at different prices and the stop order
C10_Witness ==
    /\ epc = "done"
    /\ result[1].success
    /\ Cardinality(CallsOf("entry")) = 2
    /\ Cardinality(CallsOf("target")) = 2
    /\ Cardinality(CallsOf("stop")) = 1
    /\ signal_data.entry_zones[1] # signal_data.entry_zones[2]
    /\ signal_data.targets[1] # signal_data.targets[2]

\* the rungs of a ladder for which the gateway received a call
RungsCalled(ladder) == {calls[k].rung : k \in CallsOf(ladder)}

\* the leverage was set, so execute_signal went on to size and place the orders
LeverageWasSet == calls # <<>> /\ calls[1].ok

\* C11: a failing placement does not abort the rest: whatever subset of the
\* placements fails, execute_signal attempts every entry step, every target
\* step and the stop order, one place_order call each, and returns
\* success = true once the leverage was set, even if every order failed.
C11_FailuresDoNotAbort ==
    (epc = "done" /\ LeverageWasSet) =>
        /\ result[1].success
        /\ RungsCalled("entry") = 1 .. EntrySteps(signal_data, exec_settings)
        /\ RungsCalled("target") = 1 .. TargetSteps(signal_data, exec_settings)
        /\ RungsCalled("stop") = IF Truthy(signal_data.stop_loss) THEN {1} ELSE {}
        /\ Len(calls) = 1 + Cardinality(RungsCalled("entry"))
                          + Cardinality(RungsCalled("target"))
                          + Cardinality(RungsCalled("stop"))

\* execute_signal returned success although each of two entry orders, two
\* target orders and the stop order failed
C11_Witness ==
    /\ epc = "done"
    /\ result[1].success
    /\ Len(calls) = 6
    /\ \A k \in 2 .. Len(calls) : ~calls[k].ok

\* the rungs of a ladder that have an element in a result list
RungsReported(orders) == {orders[j].rung : j \in 1 .. Len(orders)}

\* C12: an order failure surfaces in the result lists: for every ladder step
\* whose placement failed, the list of its ladder in the returned dict
\* (entry_orders, target_orders, stop_order) holds that step's outcome, so the
\* caller can tell that this order failed, while success stays true.
C12_FailedOrderVisible ==
    (epc = "done" /\ LeverageWasSet) =>
        /\ result[1].success
        /\ \A k \in CallsOf("entry") :
              ~calls[k].ok => calls[k].rung \in RungsReported(result[1].entry_orders)
        /\ \A k \in CallsOf("target") :
              ~calls[k].ok => calls[k].rung \in RungsReported(result[1].target_orders)
        /\ \A k \in CallsOf("stop") :
              ~calls[k].ok => result[1].stop_order = <<>>

\* what the code does instead: the lists hold the accepted orders only, in
\* placement order, and a failed step leaves no element
OnlyAcceptedOrdersReported ==
    (epc = "done" /\ LeverageWasSet) =>
        /\ result[1].entry_orders =
              SelectSeq(calls, LAMBDA c : c.ladder = "entry" /\ c.ok)
        /\ result[1].target_orders =
              SelectSeq(calls, LAMBDA c : c.ladder = "target" /\ c.ok)
        /\ result[1].stop_order =
              SelectSeq(calls, LAMBDA c : c.ladder = "stop" /\ c.ok)

\* the calls the gateway received for one rung of one ladder
CallsFor(ladder, rung) == {k \in CallsOf(ladder) : calls[k].rung = rung}

\* C13: nothing is retried: in one execute_signal the gateway receives
\* set_leverage at most once and place_order at most once per ladder step; if
\* set_leverage fails, execute_signal returns an explicit error result
\* (success = false with an error) and no order is placed.
C13_NoRetry ==
    /\ Cardinality({k \in 1 .. Len(calls) : calls[k].api = "set_leverage"}) <= 1
    /\ \A k \in 1 .. Len(calls) :
          Cardinality(CallsFor(calls[k].ladder, calls[k].rung)) = 1
    /\ (calls # <<>> /\ ~calls[1].ok) =>
          /\ Len(calls) = 1
          /\ epc = "done"
          /\ ~result[1].success
          /\ result[1].error # ""
          /\ result[1].entry_orders = <<>>
          /\ result[1].target_orders = <<>>
          /\ result[1].stop_order = <<>>

\* set_leverage failed for a signal that has entries, targets and a stop
C13_Witness ==
    /\ epc = "done"
    /\ calls # <<>>
    /\ ~calls[1].ok
    /\ signal_data.entry_zones # <<>>
    /\ signal_data.targets # <<>>
    /\ Truthy(signal_data.stop_loss)
    /\ ~result[1].success

\* C14: when a stop price is set, exactly one stop order is submitted to the
\* gateway: reduce-only, on the side opposite to the entry side, sized at the
\* full position size and carrying the stop price; when no stop price is set,
\* no stop order is submitted.
C14_StopOrderSubmitted ==
    (epc = "done" /\ LeverageWasSet) =>
        IF Truthy(signal_data.stop_loss)
        THEN /\ Cardinality(CallsOf("stop")) = 1
             /\ \A k \in CallsOf("stop") :
                   /\ calls[k].api = "place_order"
                   /\ place_order(calls[k]).reduceOnly
                   /\ place_order(calls[k]).side = ExitSide(signal_data.position_type)
                   /\ place_order(calls[k]).side # EntrySide(signal_data.position_type)
                   /\ place_order(calls[k]).size = position_size
                   /\ place_order(calls[k]).price = signal_data.stop_loss
        ELSE CallsOf("stop") = {}

\* the part of C14 that holds: one reduce-only, reversed, full-size stop_market
\* order for a set stop and none otherwise; the request carries no price
StopOrderWithoutPrice ==
    (epc = "done" /\ LeverageWasSet) =>
        IF Truthy(signal_data.stop_loss)
        THEN /\ Cardinality(CallsOf("stop")) = 1
             /\ \A k \in CallsOf("stop") :
                   /\ place_order(calls[k]).type = "stop_market"
                   /\ place_order(calls[k]).reduceOnly
                   /\ place_order(calls[k]).side = ExitSide(signal_data.position_type)
                   /\ place_order(calls[k]).size = position_size
                   /\ place_order(calls[k]).price = None
        ELSE CallsOf("stop") = {}

\* the requests the gateway received for a ladder, in order
RequestsOf(ladder) ==
    LET cs == SelectSeq(calls, LAMBDA c : c.ladder = ladder)
    IN  [j \in 1 .. Len(cs) |-> place_order(cs[j])]

\* the sum of the first n values of a distribution
RECURSIVE SumFirst(_, _)
SumFirst(dist, n) == IF n = 0 THEN 0 ELSE dist[n] + SumFirst(dist, n - 1)

\* C15: the entry ladder has min(len(entries), len(distribution)) steps; step i
\* has price entries[i], size totalSize * distribution[i] / 100 and direction
\* buy for Long, sell for Short; so the step sizes sum to totalSize * (sum of
\* the first min(len(entries), len(distribution)) distribution values) / 100,
\* and nothing past that index is used.
C15_EntryLadder ==
    (epc \notin {"set_leverage", "entries"} /\ LeverageWasSet) =>
        LET steps == IF Len(signal_data.entry_zones) <= Len(exec_settings.entry_distribution)
                     THEN Len(signal_data.entry_zones)
                     ELSE Len(exec_settings.entry_distribution)
            ladder == RequestsOf("entry")
        IN  /\ Len(ladder) = steps
            /\ \A i \in 1 .. Len(ladder) :
                  /\ ladder[i].price = signal_data.entry_zones[i]
                  /\ ladder[i].size =
                        RDiv(RMul(position_size, R(exec_settings.entry_distribution[i])),
                             R(100))
                  /\ ladder[i].side =
                        IF signal_data.position_type = LONG THEN "buy" ELSE "sell"
            /\ RSum([i \in 1 .. Len(ladder) |-> ladder[i].size]) =
                  RDiv(RMul(position_size,
                            R(SumFirst(exec_settings.entry_distribution, steps))),
                       R(100))

\* a finished entry ladder of two steps with different prices, built from the
\* first two values of the three-valued default distribution
C15_Witness ==
    /\ epc \notin {"set_leverage", "entries"}
    /\ LeverageWasSet
    /\ Len(RequestsOf("entry")) = 2
    /\ Len(exec_settings.entry_distribution) = 3
    /\ signal_data.entry_zones[1] # signal_data.entry_zones[2]
    /\ signal_data.position_type = SHORT

\* C16: the target ladder is built like the entry ladder, from the targets and
\* the target distribution; every target step has the direction opposite to
\* the entry direction of the intent (sell for Long, buy for Short) and is
\* reduce-only, and no entry step is reduce-only.
C16_TargetLadder ==
    (epc \notin {"set_leverage", "entries", "targets"} /\ LeverageWasSet) =>
        LET steps == IF Len(signal_data.targets) <= Len(exec_settings.target_distribution)
                     THEN Len(signal_data.targets)
                     ELSE Len(exec_settings.target_distribution)
            ladder == RequestsOf("target")
            entries == RequestsOf("entry")
        IN  /\ Len(ladder) = steps
            /\ \A i \in 1 .. Len(ladder) :
                  /\ ladder[i].price = signal_data.targets[i]
                  /\ ladder[i].size =
                        RDiv(RMul(position_size, R(exec_settings.target_distribution[i])),
                             R(100))
                  /\ ladder[i].side =
                        IF signal_data.position_type = LONG THEN "sell" ELSE "buy"
                  /\ ladder[i].reduceOnly
                  /\ \A j \in 1 .. Len(entries) : ladder[i].side # entries[j].side
            /\ \A j \in 1 .. Len(entries) : ~entries[j].reduceOnly

\* a finished target ladder of two steps next to an entry ladder of two steps
C16_Witness ==
    /\ epc \notin {"set_leverage", "entries", "targets"}
    /\ LeverageWasSet
    /\ Len(RequestsOf("target")) = 2
    /\ Len(RequestsOf("entry")) = 2
    /\ signal_data.targets[1] # signal_data.targets[2]

(***************************************************************************)
(* Claims about the sizing functions (SpecSize).                           *)
(***************************************************************************)
\* the stop or the entry of the call is missing or not positive
GuardApplies ==
    \/ size_args.entry_price = None
    \/ size_args.stop_loss = None
    \/ size_args.entry_price <= 0
    \/ size_args.stop_loss <= 0

\* min(defaultSize, balance * 0.1)
GuardSize ==
    LET tenth == RDiv(R(size_args.balance), R(10))
    IN  IF RLt(tenth, R(size_args.default_size)) THEN tenth
        ELSE R(size_args.default_size)

\* |entry - stop| / entry
RiskPerUnit == Rat(Abs(size_args.entry_price - size_args.stop_loss), size_args.entry_price)

\* (balance * riskPct / 100) / riskPerUnit
BalanceAtRiskUncapped ==
    RDiv(RDiv(RMul(R(size_args.balance), R(size_args.risk_percentage)), R(100)),
         RiskPerUnit)

\* ... capped at balance * 0.2
BalanceAtRiskSize ==
    LET cap == RDiv(R(size_args.balance), R(5))
    IN  IF RLt(cap, BalanceAtRiskUncapped) THEN cap ELSE BalanceAtRiskUncapped

\* C17 as stated: if the stop or the entry is missing or non-positive the
\* balance-at-risk size is min(defaultSize, balance * 0.1); otherwise it is
\* (balance * riskPct / 100) / riskPerUnit capped at balance * 0.2, with
\* riskPerUnit = |entry - stop| / entry.
C17_BalanceAtRisk ==
    backtest_size # <<>> =>
        backtest_size[1] = IF GuardApplies THEN GuardSize ELSE BalanceAtRiskSize

\* C17, amended: the risk-based size applies when entry and stop are positive
\* and differ; when they are equal (riskPerUnit = 0) the size is
\* min(defaultSize, balance * 0.1), as under the guard.
C17_BalanceAtRiskUnlessZeroRisk ==
    backtest_size # <<>> =>
        backtest_size[1] =
            IF GuardApplies \/ size_args.entry_price = size_args.stop_loss
            THEN GuardSize ELSE BalanceAtRiskSize

\* the size was computed from a positive entry and an equal stop, with a
\* balance for which the cap and the default differ
C17_Witness ==
    /\ backtest_size # <<>>
    /\ size_args.entry_price > 0
    /\ size_args.entry_price = size_args.stop_loss
    /\ size_args.balance = 1000
    /\ backtest_size[1] = R(size_args.default_size)

\* the cap of 20% of the balance cut a larger risk-based size
BalanceCapApplied ==
    /\ backtest_size # <<>>
    /\ ~GuardApplies
    /\ size_args.entry_price # size_args.stop_loss
    /\ size_args.balance > 0
    /\ RLt(backtest_size[1], BalanceAtRiskUncapped)
    /\ backtest_size[1] = RDiv(R(size_args.balance), R(5))

\* a risk-based size below the cap was returned as it is
BalanceCapNotApplied ==
    /\ backtest_size # <<>>
    /\ ~GuardApplies
    /\ size_args.entry_price # size_args.stop_loss
    /\ size_args.balance > 0
    /\ RLt(backtest_size[1], RDiv(R(size_args.balance), R(5)))

\* C18: base-multiplier sizing applies the guard clause of balance-at-risk
\* sizing: when the stop or the entry is missing or non-positive, the size
\* returned for live execution is min(defaultSize, balance * 0.1).
C18_ManagerGuardSize ==
    (manager_size # <<>> /\ GuardApplies) => manager_size[1] = GuardSize

\* what the code returns under the guard: the default size, whatever the balance
ManagerGuardReturnsBase ==
    (manager_size # <<>> /\ GuardApplies) => manager_size[1] = R(size_args.default_size)

(***************************************************************************)
(* Claims about the size execute_signal computes (SpecExec).               *)
(***************************************************************************)
\* the entry price execute_signal passes to the sizing (line 269)
FirstEntry == IF signal_data.entry_zones # <<>> THEN signal_data.entry_zones[1] ELSE 0

\* (riskPct / 100) / riskPerUnit * defaultSize, riskPerUnit = |entry - stop| / entry
BaseMultiplierUncapped ==
    RMul(RDiv(RDiv(R(exec_settings.risk_percentage), R(100)),
              RDiv(R(Abs(FirstEntry - signal_data.stop_loss)), R(FirstEntry))),
         R(exec_settings.default_position_size))

SizeLimit == RMul(R(5), R(exec_settings.default_position_size))

\* C19: with a positive entry and a positive stop that differ, the
\* base-multiplier size is (riskPct / 100) / riskPerUnit * defaultSize capped
\* at defaultSize * 5, so the size of a live execution never exceeds 5 times
\* the default size; execute_signal computes it from the first entry price and
\* the stop.
C19_BaseMultiplier ==
    LeverageWasSet =>
        /\ RLe(position_size, SizeLimit)
        /\ (/\ FirstEntry > 0
            /\ signal_data.stop_loss > 0
            /\ FirstEntry # signal_data.stop_loss) =>
                position_size = IF RLt(SizeLimit, BaseMultiplierUncapped)
                                THEN SizeLimit ELSE BaseMultiplierUncapped

\* the cap cut a larger size computed from the first of two different entry
\* prices
C19_Witness ==
    /\ LeverageWasSet
    /\ Len(signal_data.entry_zones) = 2
    /\ signal_data.entry_zones[1] # signal_data.entry_zones[2]
    /\ signal_data.stop_loss > 0
    /\ FirstEntry # signal_data.stop_loss
    /\ RLt(SizeLimit, BaseMultiplierUncapped)
    /\ position_size = SizeLimit

\* a size below the cap was used as it is
BaseMultiplierBelowCap ==
    /\ LeverageWasSet
    /\ FirstEntry > 0
    /\ signal_data.stop_loss > 0
    /\ FirstEntry # signal_data.stop_loss
    /\ RLt(position_size, SizeLimit)

(***************************************************************************)
(* Claims about _calculate_metrics (SpecMetrics).                          *)
(***************************************************************************)
\* the equity values: the initial balance, then the balance after each trade
Equity ==
    <<R(metric_args.initial_balance)>> \o
    [k \in 1 .. Len(metric_args.equity_curve) |-> metric_args.equity_curve[k].balance]

\* the running peak at value k: the largest of the values 1 .. k
PeakAt(k) ==
    CHOOSE p \in {Equity[j] : j \in 1 .. k} : \A j \in 1 .. k : RLe(Equity[j], p)

\* the drawdown at value k, in percent of the peak
DrawdownAt(k) == RMul(RDiv(RSub(PeakAt(k), Equity[k]), PeakAt(k)), R(100))

Drawdowns == {DrawdownAt(k) : k \in 1 .. Len(Equity)}

DrawdownLostAtZeroEquity ==
    /\ computed_metrics # <<>>
    /\ \E k \in 2 .. Len(Equity) - 1 : Equity[k] = Zero
    /\ \E d \in Drawdowns : RLt(Zero, d)
    /\ computed_metrics[1].max_drawdown = Zero

RECURSIVE GrossOver(_, _)
GrossOver(n, wins) ==
    IF n = 0 THEN Zero
    ELSE LET pnl == metric_args.trade_history[n].pnl
         IN  RAdd(GrossOver(n - 1, wins),
                  IF RLt(Zero, pnl) = wins THEN pnl ELSE Zero)

SumOfWins == GrossOver(Len(metric_args.trade_history), TRUE)
SumOfLosses == GrossOver(Len(metric_args.trade_history), FALSE)

\* the computation divides by no zero: no running peak is 0 and no equity
\* value before the last is 0
NoZeroEquity ==
    /\ \A k \in 1 .. Len(Equity) : PeakAt(k) # Zero
    /\ \A k \in 1 .. Len(Equity) - 1 : Equity[k] # Zero

ProfitFactorLostAtZeroEquity ==
    /\ computed_metrics # <<>>
    /\ RLt(Zero, SumOfWins)
    /\ RLt(SumOfLosses, Zero)
    /\ computed_metrics[1].profit_factor = Zero


\* the return of trade k - 1, from equity value k - 1 to equity value k, as
\* a fraction of the former, not rounded
ReturnAt(k) == RDiv(RSub(Equity[k], Equity[k - 1]), Equity[k - 1])

\* every trade produced exactly the same return: the return series has zero
\* variance
SameReturns ==
    \A j, k \in 2 .. Len(Equity) : ReturnAt(j) = ReturnAt(k)

\* C22: sharpe_ratio is 0 whenever the return series r_i = (E_i - E_(i-1)) /
\* E_(i-1) has zero variance: for an empty trade list, for a single trade and
\* for a run whose trades all produced exactly the same return.
C22_SharpeZeroAtZeroVariance ==
    (/\ computed_metrics # <<>>
     /\ NoZeroEquity
     /\ SameReturns) => computed_metrics[1].sharpe_ratio = Zero

\* what holds of it: sharpe_ratio is 0 for an empty trade list, for a single
\* trade, and for two trades of the same return
SharpeZeroUpToTwoReturns ==
    (/\ computed_metrics # <<>>
     /\ Len(metric_args.trade_history) <= 2
     /\ NoZeroEquity
     /\ SameReturns) => computed_metrics[1].sharpe_ratio = Zero

\* three trades of the same return, not 0, and a sharpe_ratio that is not 0:
\* the rounded mean of the three is not the return
SharpeOfRoundingResidue ==
    /\ computed_metrics # <<>>
    /\ Len(metric_args.trade_history) = 3
    /\ NoZeroEquity
    /\ SameReturns
    /\ ReturnAt(2) # Zero
    /\ computed_metrics[1].sharpe_ratio # Zero

(***************************************************************************)
(* Claims about the parser (SpecParse).  intents[k] is the dict returned   *)
(* for texts[k].                                                           *)
(***************************************************************************)
\* the cleaned words of text k
Cleaned(k) == clean_text(texts[k].tokens)

\* strictly ascending: sorted, and no value twice
Ascending(xs) == \A k \in 1 .. Len(xs) - 1 : RLt(xs[k], xs[k + 1])

\* some entry pattern matched a number in text k
EntryRuleMatched(k) == PooledEntries(Cleaned(k)) # <<>>

\* C23: for every input text the entry-zone list and the target list of the
\* intent are sorted ascending, hold no value twice and have at most 5
\* elements, whether the label rules or the scan over all numbers of the text
\* produced them.
C23_ListsSortedDistinctCapped ==
    \A k \in 1 .. Len(intents) :
        texts[k].str =>
            /\ Ascending(intents[k].entry_zones)
            /\ Len(intents[k].entry_zones) <= 5
            /\ Ascending(intents[k].targets)
            /\ Len(intents[k].targets) <= 5

\* what holds of it: both lists have at most 5 elements, the targets are
\* ascending, and the entries are when an entry pattern matched
ListsSortedUnlessFallback ==
    \A k \in 1 .. Len(intents) :
        texts[k].str =>
            /\ Len(intents[k].entry_zones) <= 5
            /\ Ascending(intents[k].targets)
            /\ Len(intents[k].targets) <= 5
            /\ EntryRuleMatched(k) => Ascending(intents[k].entry_zones)

\* no entry pattern matched, and the numbers of the text are the entry zones
\* in the order of the text, one of them twice
FallbackEntriesUnsorted ==
    /\ ppc = "parsed"
    /\ texts[1].str
    /\ ~EntryRuleMatched(1)
    /\ \E i, j \in 1 .. Len(intents[1].entry_zones) :
          i < j /\ RLt(intents[1].entry_zones[j], intents[1].entry_zones[i])
    /\ \E i, j \in 1 .. Len(intents[1].entry_zones) :
          i < j /\ intents[1].entry_zones[i] = intents[1].entry_zones[j]

\* the matches of the entry patterns in text k that are a range A - B of two
\* numbers with A < B
EntryRanges(k) ==
    {m \in UNION {Elements(EntryMatchesFrom(Cleaned(k), EntryLabels[p], 1)) :
                     p \in 1 .. Len(EntryLabels)} :
        /\ Len(m) = 3
        /\ IsNumber(m[1]) /\ IsNumber(m[3])
        /\ NumberValue[m[1]] < NumberValue[m[3]]}

\* the groups of the target patterns in text k that are a range A - B of two
\* numbers with A < B
TargetRanges(k) ==
    {g \in UNION {Elements(TargetMatch(Cleaned(k), TargetLabels[p])) :
                     p \in 1 .. Len(TargetLabels)} :
        /\ Len(g) = 3
        /\ IsNumber(g[1]) /\ g[2] = "-" /\ IsNumber(g[3])
        /\ NumberValue[g[1]] < NumberValue[g[3]]}

\* {A, (A + B) / 2, B} for the range A - B
ThreePoints(range) ==
    {R(NumberValue[range[1]]),
     Rat(NumberValue[range[1]] + NumberValue[range[3]], 2),
     R(NumberValue[range[3]])}

TargetRangeNotExpanded ==
    /\ ppc = "parsed"
    /\ texts[1].str
    /\ <<"1", "-", "3">> \in TargetRanges(1)
    /\ intents[1].targets = <<R(1), R(3)>>

\* the number the first leverage label of text k is followed by, leverage
\* labels in the order LEVERAGE, CROSS, LEV; <<>> when there is none
LeverageFound(k) ==
    LET at(label) == {i \in 1 .. Len(Cleaned(k)) - 1 :
                         /\ Cleaned(k)[i] = label
                         /\ \E j \in i + 1 .. Len(Cleaned(k)) :
                               /\ IsNumber(Cleaned(k)[j])
                               /\ \A c \in i + 1 .. j - 1 : Cleaned(k)[c] = ":"}
        first(label) == CHOOSE i \in at(label) : \A j \in at(label) : i <= j
        number(i) == Cleaned(k)[CHOOSE j \in i + 1 .. Len(Cleaned(k)) :
                                    /\ IsNumber(Cleaned(k)[j])
                                    /\ \A c \in i + 1 .. j - 1 : Cleaned(k)[c] = ":"]
    IN  IF at("LEVERAGE") # {} THEN <<NumberValue[number(first("LEVERAGE"))]>>
        ELSE IF at("CROSS") # {} THEN <<NumberValue[number(first("CROSS"))]>>
        ELSE IF at("LEV") # {} THEN <<NumberValue[number(first("LEV"))]>>
        ELSE <<>>

\* the leverage of the claim: the number found, brought into 1 .. 100, and
\* 1 when none is found
LeverageExpected(k) ==
    IF LeverageFound(k) = <<>> THEN 1
    ELSE IF LeverageFound(k)[1] < 1 THEN 1
    ELSE IF LeverageFound(k)[1] > 100 THEN 100
    ELSE LeverageFound(k)[1]

\* C25: the leverage of every intent parse produces is an integer in
\* 1 .. 100: a number found by a leverage rule is clamped into the interval
\* (0 becomes 1, a number above 100 becomes 100) and an absent or unparseable
\* leverage gives 1.
C25_LeverageInRange ==
    \A k \in 1 .. Len(intents) :
        /\ "leverage" \in DOMAIN intents[k]
        /\ intents[k].leverage \in 1 .. 100
        /\ texts[k].str => intents[k].leverage = LeverageExpected(k)

\* what holds of it: the leverage of the intent of every text that is a string
LeverageOfStringsInRange ==
    \A k \in 1 .. Len(intents) :
        texts[k].str =>
            /\ intents[k].leverage \in 1 .. 100
            /\ intents[k].leverage = LeverageExpected(k)

\* the intent recorded for a failed parse has no leverage
FailedIntentWithoutLeverage ==
    /\ ppc = "parsed"
    /\ ~intents[1].parsed_successfully
    /\ intents[1].parse_errors = <<ParsingFailed>>
    /\ "leverage" \notin DOMAIN intents[1]

\* C26: batch_parse_signals returns one intent per text, in the order of the
\* texts; a text whose parsing fails does not end the batch: its intent
\* stands at its position with parsed_successfully false and the generic
\* parse-failure error, and the texts after it are parsed.
C26_BatchOneIntentPerText ==
    ppc = "batch" =>
        /\ Len(intents) = Len(texts)
        /\ \A k \in 1 .. Len(texts) :
              /\ intents[k].raw_text = texts[k]
              /\ ~texts[k].str =>
                    /\ ~intents[k].parsed_successfully
                    /\ intents[k].parse_errors = <<ParsingFailed>>
              /\ texts[k].str =>
                    /\ "entry_zones" \in DOMAIN intents[k]
                    /\ ParsingFailed \notin Elements(intents[k].parse_errors)
                    /\ intents[k].parsed_successfully = (intents[k].parse_errors = <<>>)

\* a batch of three texts: the first fails, the second is parsed with
\* success, the third is parsed and lacks a coin
C26_Witness ==
    /\ ppc = "batch"
    /\ Len(texts) = 3
    /\ Len(intents) = 3
    /\ ~texts[1].str
    /\ intents[1].parse_errors = <<ParsingFailed>>
    /\ intents[2].parsed_successfully
    /\ intents[2].entry_zones = <<R(1), R(2), R(3)>>
    /\ texts[3].str
    /\ ~intents[3].parsed_successfully
    /\ intents[3].entry_zones # <<>>

(***************************************************************************)
(* Claims about the times and prices of an exit (SpecSearch).              *)
(***************************************************************************)
\* an entry and an exit were found: _simulate_trade records the trade
ExitFound == spc = "exit_done" /\ exit.price # None

\* the candle at the exit time
ExitCandle == data[CHOOSE k \in 1 .. Len(data) : data[k].timestamp = exit.time]

\* C30: for every recorded trade the exit time is strictly later than the
\* entry time, and the exit price lies within the low-high range of the
\* candle at the exit time, for stop_loss and target exits as well as for
\* timeout exits at the close.
C30_ExitWithinCandle ==
    ExitFound =>
        /\ exit.time > entry.time
        /\ ExitCandle.low <= exit.price
        /\ exit.price <= ExitCandle.high

\* C30, amended: the exit time is strictly later than the entry time.  A
\* timeout exit is at the close of its candle, within the low-high range.
\* A stop_loss exit is at the stop and a target exit at the target, and the
\* candle reached that price from one side only: its low is at or below the
\* stop of a long and the target of a short, its high at or above the stop of
\* a short and the target of a long.
C30_ExitAfterEntryAtLevel ==
    ExitFound =>
        /\ exit.time > entry.time
        /\ \E k \in 1 .. Len(data) : data[k].timestamp = exit.time
        /\ exit.reason = "timeout" =>
              /\ exit.price = ExitCandle.close
              /\ ExitCandle.low <= exit.price
              /\ exit.price <= ExitCandle.high
        /\ exit.reason = "stop_loss" =>
              /\ exit.price = stop_loss
              /\ position_type = LONG => ExitCandle.low <= exit.price
              /\ position_type = SHORT => exit.price <= ExitCandle.high
        /\ exit.reason = "target" =>
              /\ exit.price \in Elements(targets)
              /\ position_type = LONG => exit.price <= ExitCandle.high
              /\ position_type = SHORT => ExitCandle.low <= exit.price

\* a long entered at 3 leaves at its target 3 in the next candle, whose range
\* holds the target
C30_Witness ==
    /\ ExitFound
    /\ position_type = LONG
    /\ entry.price = 3
    /\ exit.reason = "target"
    /\ exit.time = entry.time + 1
    /\ ExitCandle.low <= exit.price
    /\ exit.price <= ExitCandle.high

\* a long leaves at its stop in a candle that lies below the stop
StopExitOutsideCandle ==
    /\ ExitFound
    /\ position_type = LONG
    /\ exit.reason = "stop_loss"
    /\ exit.price > ExitCandle.high

(***************************************************************************)
(* Claims about reduce-only orders of execute_signal (SpecExec).           *)
(***************************************************************************)
\* the calls that carried a reduce-only order
ReduceOnlyCalls == {k \in 1 .. Len(calls) : calls[k].reduce_only}

\* an entry order of this execution was placed with success
EntryPlaced == \E k \in CallsOf("entry") : calls[k].ok

\* C29: no reduce-only order (target or stop) is submitted to the gateway
\* unless at least one entry order of the same execution was placed
\* successfully; an intent with an empty entry zone, or one whose entry
\* placements all failed, results in no target and no stop order.
C29_ReduceOnlyNeedsEntry ==
    ReduceOnlyCalls # {} => EntryPlaced

\* C29, amended: the target and stop orders are submitted whether or not an
\* entry order was placed.  Once the leverage was set, a finished
\* execute_signal has submitted one reduce-only order for every target step
\* and one for a truthy stop, each after the last entry call, also when the
\* entry zone is empty or every entry placement failed.
C29_ReduceOnlyRegardlessOfEntry ==
    /\ \A k \in ReduceOnlyCalls :
          /\ calls[k].ladder \in {"target", "stop"}
          /\ \A j \in CallsOf("entry") : j < k
    /\ (epc = "done" /\ LeverageWasSet) =>
          /\ ReduceOnlyCalls = CallsOf("target") \cup CallsOf("stop")
          /\ Cardinality(ReduceOnlyCalls) =
                TargetSteps(signal_data, exec_settings)
                + (IF Truthy(signal_data.stop_loss) THEN 1 ELSE 0)

\* every entry placement failed, and two target orders and the stop order
\* were submitted
C29_Witness ==
    /\ epc = "done"
    /\ CallsOf("entry") # {}
    /\ ~EntryPlaced
    /\ Cardinality(CallsOf("target")) = 2
    /\ Cardinality(CallsOf("stop")) = 1
    /\ \A k \in CallsOf("target") \cup CallsOf("stop") : calls[k].reduce_only

\* the entry zone is empty, and a target order and the stop order were
\* submitted
ReduceOnlyWithoutEntryZone ==
    /\ epc = "done"
    /\ signal_data.entry_zones = <<>>
    /\ CallsOf("target") # {}
    /\ CallsOf("stop") # {}
    /\ \A k \in CallsOf("target") \cup CallsOf("stop") : calls[k].reduce_only

(***************************************************************************)
(* Claims about the trades of one run (SpecSimulate).  sim_history[k] is   *)
(* the k-th recorded trade and sim_args[k] what _simulate_trade was called *)
(* with for it.                                                            *)
(***************************************************************************)
Recorded == 1 .. Len(sim_history)

\* exit - entry for a long, entry - exit for a short
DirectionalDelta(k) ==
    IF sim_history[k].position_type = LONG
    THEN sim_history[k].exit_price - sim_history[k].entry_price
    ELSE sim_history[k].entry_price - sim_history[k].exit_price

\* the first candle that holds an entry-zone price, and in it the first such
\* price of the list
EntryFound(k) ==
    LET rows == sim_args[k].rows
        zones == sim_args[k].signal.entry_zones
        Holds(c, z) == rows[c].low <= zones[z] /\ zones[z] <= rows[c].high
    IN  \E c \in 1 .. Len(rows), z \in 1 .. Len(zones) :
            /\ Holds(c, z)
            /\ sim_history[k].entry_price = zones[z]
            /\ sim_history[k].entry_time = rows[c].timestamp
            /\ \A d \in 1 .. c - 1, y \in 1 .. Len(zones) : ~Holds(d, y)
            /\ \A y \in 1 .. z - 1 : ~Holds(c, y)

\* C27: the pnl of a recorded trade equals the directional price delta
\* (exit - entry for Long, entry - exit for Short) divided by the entry
\* price, times the position size, times the leverage of the intent, where
\* entry is the price found by the entry search and the position size is the
\* one computed from the first entry-zone price.
C27_PnlFormula ==
    \A k \in Recorded :
        /\ EntryFound(k)
        /\ sim_history[k].position_size =
              calculate_position_size(sim_args[k].balance,
                  sim_settings.default_position_size,
                  sim_settings.risk_percentage,
                  sim_args[k].signal.entry_zones[1],
                  sim_args[k].signal.stop_loss)
        /\ sim_history[k].leverage = sim_args[k].signal.leverage
        /\ RMul(sim_history[k].pnl, R(sim_history[k].entry_price)) =
              RMul(R(DirectionalDelta(k) * sim_history[k].leverage),
                   sim_history[k].position_size)

\* a short with leverage 10 entered at its second entry-zone price, sized
\* from the first one and the stop, and closed with a loss
C27_Witness ==
    \E k \in Recorded :
        /\ sim_history[k].position_type = SHORT
        /\ sim_history[k].leverage = 10
        /\ Len(sim_args[k].signal.entry_zones) = 2
        /\ sim_history[k].entry_price = sim_args[k].signal.entry_zones[2]
        /\ sim_history[k].entry_price # sim_args[k].signal.entry_zones[1]
        /\ Truthy(sim_args[k].signal.stop_loss)
        /\ RLt(sim_history[k].pnl, Zero)
        /\ RLt(Zero, sim_history[k].position_size)

\* 20% of the balance a trade was sized from
FifthOfBalance(k) == RMul(sim_args[k].balance, Rat(1, 5))

SizedFromNegativeBalance ==
    /\ Len(sim_history) = 2
    /\ RLt(sim_args[2].balance, Zero)
    /\ RLt(sim_history[2].position_size, Zero)

====
